---------------------------- MODULE Spec2Model ----------------------------
(***************************************************************************)
(* Title-sequence scripting subsystem of OpenRCT2                          *)
(* (src/openrct2/title/TitleSequence.cpp).                                 *)
(*                                                                         *)
(* Text is modelled as a sequence of one-character strings, so that the    *)
(* tokenizer, the decoder and the encoder work character by character as   *)
(* the C++ does.  A TitleSequence is the five variables Name, Path, Saves, *)
(* Commands and IsZip.                                                     *)
(***************************************************************************)
EXTENDS Integers, Sequences, FiniteSets, TLC

VARIABLES
    Name,       \* TitleSequence::Name
    Path,       \* TitleSequence::Path
    Saves,      \* TitleSequence::Saves    (std::vector<std::string>)
    Commands,   \* TitleSequence::Commands (std::vector<TitleCommand>)
    IsZip,      \* TitleSequence::IsZip
    script,     \* the bytes of script.txt that were decoded
    text,       \* the text LegacyScriptWrite produced
    reread,     \* the commands decoded from text
    pc,         \* position of the control flow
    nops,       \* number of mutation calls made so far
    last,       \* the last call: arguments, result, backend calls, state before
    lineCall,   \* one tokenizer call: the line read, the fields, the command
    libc,       \* what atoi of the C library does with a number outside int
    files,      \* the names of the save files the directory or archive holds
    loaded,     \* the sequence LoadTitleSequence returned after a save
    userFile,   \* the elements of the JSON array users.json holds
    usersByHash,\* NetworkUserManager::_usersByHash: hash -> Remove of the user
    jsonUsers,  \* Save: the local jsonUsers
    it,         \* Save: the iterator of the update loop, as a position from 1
    savedHashes,\* Save: the local savedHashes
    upc         \* position of the control flow of NetworkUserManager::Save

vars == <<Name, Path, Saves, Commands, IsZip, script, text, reread, pc, nops, last,
          lineCall, libc, files, loaded,
          userFile, usersByHash, jsonUsers, it, savedHashes, upc>>

\* the state of the user manager
userVars == <<userFile, usersByHash, jsonUsers, it, savedHashes, upc>>

\* no user store: no file, no user in memory, Save not running
NoUserManager ==
    /\ userFile = <<>>
    /\ usersByHash = <<>>
    /\ jsonUsers = <<>>
    /\ it = 1
    /\ savedHashes = {}
    /\ upc = "idle"

-----------------------------------------------------------------------------
(* Characters and C string helpers *)

UpperCase == <<"A","B","C","D","E","F","G","H","I","J","K","L","M",
               "N","O","P","Q","R","S","T","U","V","W","X","Y","Z">>
LowerCase == <<"a","b","c","d","e","f","g","h","i","j","k","l","m",
               "n","o","p","q","r","s","t","u","v","w","x","y","z">>
DigitChars == <<"0","1","2","3","4","5","6","7","8","9">>

EOF == "EOF"
\* the byte 0 that ends a C string
NUL == "NUL"

tolower(c) ==
    IF \E i \in 1..Len(UpperCase) : UpperCase[i] = c
    THEN LowerCase[CHOOSE i \in 1..Len(UpperCase) : UpperCase[i] = c]
    ELSE c

\* _stricmp(a, b) == 0
stricmp(a, b) ==
    /\ Len(a) = Len(b)
    /\ \A i \in 1..Len(a) : tolower(a[i]) = tolower(b[i])

\* _strnicmp(a, b, n) == 0, for a holding at least n characters
strnicmp(a, b, n) ==
    /\ Len(a) >= n
    /\ Len(b) >= n
    /\ \A i \in 1..n : tolower(a[i]) = tolower(b[i])

\* String::Equals(a, b, ignoreCase)
StringEquals(a, b, ignoreCase) ==
    IF ignoreCase THEN stricmp(a, b) ELSE a = b

IsDigit(c) == \E i \in 1..Len(DigitChars) : DigitChars[i] = c
DigitVal(c) == (CHOOSE i \in 1..Len(DigitChars) : DigitChars[i] = c) - 1

IsSpace(c) == c \in {" ", "\t", "\n", "\r", "\f"}

RECURSIVE SkipSpaces(_, _)
SkipSpaces(s, i) ==
    IF i <= Len(s) /\ IsSpace(s[i]) THEN SkipSpaces(s, i + 1) ELSE i

\* The value of int: -2^31 .. 2^31 - 1; a magnitude is held as two 16-bit
\* halves, hi * 65536 + lo, so that no intermediate value leaves the range.
HALF == 65536
INT_MAX == 2147483647
INT_MIN == 0 - INT_MAX - 1

\* the decimal digits from s[i] on, added to acc; over: the magnitude passed 2^32
RECURSIVE AtoiDigits(_, _, _)
AtoiDigits(s, i, acc) ==
    IF i <= Len(s) /\ IsDigit(s[i])
    THEN LET lo1 == acc.lo * 10 + DigitVal(s[i])
             hi1 == acc.hi * 10 + (lo1 \div HALF)
         IN AtoiDigits(s, i + 1, [lo |-> lo1 % HALF, hi |-> hi1 % HALF,
                                  over |-> acc.over \/ hi1 >= HALF])
    ELSE acc

\* the int whose 32 bits are hi * 65536 + lo
Signed32(hi, lo) ==
    IF hi >= HALF \div 2 THEN (hi - HALF) * HALF + lo ELSE hi * HALF + lo

\* atoi: leading white space, an optional sign, then the leading digits;
\* text with no leading digits is 0.  A number outside int is undefined
\* behaviour: a C library whose atoi is (int)strtol(s, NULL, 10) keeps the low
\* 32 bits (numbers below 2^63), one that saturates gives INT_MAX or INT_MIN.
atoi(s) ==
    LET i == SkipSpaces(s, 1)
        neg == i <= Len(s) /\ s[i] = "-"
        j == IF i <= Len(s) /\ s[i] \in {"-", "+"} THEN i + 1 ELSE i
        m == AtoiDigits(s, j, [lo |-> 0, hi |-> 0, over |-> FALSE])
        outside == IF neg
                   THEN m.over \/ m.hi > HALF \div 2
                        \/ (m.hi = HALF \div 2 /\ m.lo > 0)
                   ELSE m.over \/ m.hi >= HALF \div 2
        nlo == (HALF - m.lo) % HALF
        nhi == (HALF - m.hi - (IF m.lo > 0 THEN 1 ELSE 0)) % HALF
    IN IF outside /\ libc = "saturate"
       THEN IF neg THEN INT_MIN ELSE INT_MAX
       ELSE IF neg THEN Signed32(nhi, nlo) ELSE Signed32(m.hi, m.lo)

\* The mask forgotten: the int is stored as it is
Mask8_None(n) == n

\* n & 0xFF and n & 0xFFFF on a two's complement int
Mask8(n) == n % 256
Mask16(n) == n % 65536

Min2(a, b) == IF a < b THEN a ELSE b
Max2(a, b) == IF a > b THEN a ELSE b

\* safe_strcpy(dst, src, size): at most size - 1 characters are copied
safe_strcpy(src, size) ==
    IF Len(src) <= size - 1 THEN src ELSE SubSeq(src, 1, size - 1)

RECURSIVE FormatUDigits(_)
FormatUDigits(n) ==
    IF n < 10 THEN <<DigitChars[n + 1]>>
    ELSE Append(FormatUDigits(n \div 10), DigitChars[(n % 10) + 1])

\* String::Format("%u", n)
FormatU(n) == FormatUDigits(n)

-----------------------------------------------------------------------------
(* Program constants *)

\* capacity of one of the three fields of char parts[3 * 128]
PART_SIZE == 128
\* SAVE_INDEX_INVALID (UINT8_MAX): the reserved "reference lost" save index
SAVE_INDEX_INVALID == 255
\* capacity of TitleCommand::SpriteName
USER_STRING_MAX_LENGTH == 32
\* capacity of TitleCommand::Scenario
TITLE_COMMAND_SCENARIO_LENGTH == 64

\* keywords of the script format
KW_LOAD == <<"L","O","A","D">>
KW_LOADSC == <<"L","O","A","D","S","C">>
KW_LOCATION == <<"L","O","C","A","T","I","O","N">>
KW_ROTATE == <<"R","O","T","A","T","E">>
KW_ZOOM == <<"Z","O","O","M">>
KW_SPEED == <<"S","P","E","E","D">>
KW_FOLLOW == <<"F","O","L","L","O","W">>
KW_WAIT == <<"W","A","I","T">>
KW_RESTART == <<"R","E","S","T","A","R","T">>
KW_END == <<"E","N","D">>
NO_SAVE_FILE == <<"<","N","o"," ","s","a","v","e"," ","f","i","l","e",">">>
NO_SCENARIO_NAME ==
    <<"<","N","o"," ","s","c","e","n","a","r","i","o"," ","n","a","m","e",">">>
SCRIPT_FOR == <<"#"," ","S","C","R","I","P","T"," ","F","O","R"," ">>

-----------------------------------------------------------------------------
(* LegacyScriptGetLine: the line tokenizer *)

\* The locals of LegacyScriptGetLine at loop entry.  pos is the stream
\* position (0-based); parts[p + 1] is the text held by field p, i.e. the
\* bytes parts[p * 128 .. p * 128 + cindex - 1] followed by the NUL.
GetLineInit(pos) ==
    [pos |-> pos, part |-> 0, cindex |-> 0, whitespace |-> 1, comment |-> 0,
     load |-> FALSE, sprite |-> FALSE,
     parts |-> << <<>>, <<>>, <<>> >>, done |-> FALSE,
     mem |-> [o \in {i * PART_SIZE : i \in 0..2} |-> NUL],
     writes |-> {<<i, 0>> : i \in 0..2}]

\* parts[part * 128 + cindex] = c: the byte stored in the 384-byte buffer, mem
\* holding the bytes written so far by their offset in the buffer and writes
\* the pairs of part and cindex they were written with
Poke(st, c) ==
    [st EXCEPT !.mem = ((st.part * PART_SIZE + st.cindex) :> c) @@ @,
               !.writes = @ \cup {<<st.part, st.cindex>>}]

\* parts[part * 128 + cindex] = 0: field part ends at offset cindex
Terminate(parts, part, cindex) ==
    [parts EXCEPT ![part + 1] = SubSeq(@, 1, cindex)]

\* The loop body with a feature left out: loadMode FALSE never sets load,
\* hashComments FALSE reads '#' as an ordinary character, limit FALSE stores
\* a character whatever cindex is
GetLineStepWith(stream, st, loadMode, hashComments, limit) ==
    LET atEnd == st.pos >= Len(stream)
        c == IF atEnd THEN EOF ELSE stream[st.pos + 1]
        pos1 == IF atEnd THEN st.pos ELSE st.pos + 1
        tok == st.parts[1]
    IN
    IF c = "\n" \/ c = "\r" \/ c = EOF
    THEN [Poke(st, NUL) EXCEPT !.pos = pos1,
                    !.parts = Terminate(st.parts, st.part, st.cindex),
                    !.done = TRUE]
    ELSE IF c = "#" /\ hashComments
    THEN [Poke(st, NUL) EXCEPT !.pos = pos1,
                    !.parts = Terminate(st.parts, st.part, st.cindex),
                    !.comment = 1]
    ELSE IF c = " " /\ st.comment = 0 /\ ~st.load /\ (~st.sprite \/ st.part # 2)
    THEN IF st.whitespace = 0
         THEN LET isLoad ==
                      loadMode /\ st.part = 0
                      /\ \/ (st.cindex = 4 /\ strnicmp(tok, KW_LOAD, 4))
                         \/ (st.cindex = 6 /\ strnicmp(tok, KW_LOADSC, 6))
                  isSprite ==
                      ~isLoad /\ st.part = 0 /\ st.cindex = 6
                      /\ strnicmp(tok, KW_FOLLOW, 6)
              IN [Poke(st, NUL) EXCEPT !.pos = pos1,
                            !.load = IF isLoad THEN TRUE ELSE @,
                            !.sprite = IF isSprite THEN TRUE ELSE @,
                            !.parts = Terminate(st.parts, st.part, st.cindex),
                            !.part = @ + 1,
                            !.cindex = 0]
         ELSE [st EXCEPT !.pos = pos1]
    ELSE IF st.comment = 0
    THEN IF ~limit \/ st.cindex < PART_SIZE - 1
         THEN [Poke(st, c) EXCEPT !.pos = pos1,
                         !.whitespace = 0,
                         !.parts[st.part + 1] = Append(@, c),
                         !.cindex = @ + 1]
         ELSE [Poke(st, NUL) EXCEPT !.pos = pos1,
                         !.whitespace = 0,
                         !.parts = Terminate(st.parts, st.part, st.cindex),
                         !.part = @ + 1,
                         !.cindex = 0]
    ELSE [st EXCEPT !.pos = pos1]

\* The tokenizer without the embedded-space mode of LOAD and LOADSC
GetLineStep_NoLoadMode(stream, st) == GetLineStepWith(stream, st, FALSE, TRUE, TRUE)

\* The tokenizer without comment stripping
GetLineStep_NoComment(stream, st) == GetLineStepWith(stream, st, TRUE, FALSE, TRUE)

\* The tokenizer without the test of cindex against the field capacity
GetLineStep_NoLimit(stream, st) == GetLineStepWith(stream, st, TRUE, TRUE, FALSE)

\* One iteration of the for (; part < 3;) loop
GetLineStep(stream, st) ==
    LET atEnd == st.pos >= Len(stream)
        c == IF atEnd THEN EOF ELSE stream[st.pos + 1]
        pos1 == IF atEnd THEN st.pos ELSE st.pos + 1
        tok == st.parts[1]
    IN
    IF c = "\n" \/ c = "\r" \/ c = EOF
    THEN [Poke(st, NUL) EXCEPT !.pos = pos1,
                    !.parts = Terminate(st.parts, st.part, st.cindex),
                    !.done = TRUE]
    ELSE IF c = "#"
    THEN [Poke(st, NUL) EXCEPT !.pos = pos1,
                    !.parts = Terminate(st.parts, st.part, st.cindex),
                    !.comment = 1]
    ELSE IF c = " " /\ st.comment = 0 /\ ~st.load /\ (~st.sprite \/ st.part # 2)
    THEN IF st.whitespace = 0
         THEN LET isLoad ==
                      st.part = 0
                      /\ \/ (st.cindex = 4 /\ strnicmp(tok, KW_LOAD, 4))
                         \/ (st.cindex = 6 /\ strnicmp(tok, KW_LOADSC, 6))
                  isSprite ==
                      ~isLoad /\ st.part = 0 /\ st.cindex = 6
                      /\ strnicmp(tok, KW_FOLLOW, 6)
              IN [Poke(st, NUL) EXCEPT !.pos = pos1,
                            !.load = IF isLoad THEN TRUE ELSE @,
                            !.sprite = IF isSprite THEN TRUE ELSE @,
                            !.parts = Terminate(st.parts, st.part, st.cindex),
                            !.part = @ + 1,
                            !.cindex = 0]
         ELSE [st EXCEPT !.pos = pos1]
    ELSE IF st.comment = 0
    THEN IF st.cindex < PART_SIZE - 1
         THEN [Poke(st, c) EXCEPT !.pos = pos1,
                         !.whitespace = 0,
                         !.parts[st.part + 1] = Append(@, c),
                         !.cindex = @ + 1]
         ELSE [Poke(st, NUL) EXCEPT !.pos = pos1,
                         !.whitespace = 0,
                         !.parts = Terminate(st.parts, st.part, st.cindex),
                         !.part = @ + 1,
                         !.cindex = 0]
    ELSE [st EXCEPT !.pos = pos1]

RECURSIVE GetLineLoop(_, _)
GetLineLoop(stream, st) ==
    IF st.done \/ st.part >= 3 THEN st
    ELSE GetLineLoop(stream, GetLineStep(stream, st))

\* The tokenizer with its loop never entered: it returns without a read
LegacyScriptGetLine_NoRead(stream, pos) == GetLineInit(pos)

\* LegacyScriptGetLine(stream, parts) called with the stream at pos
LegacyScriptGetLine(stream, pos) == GetLineLoop(stream, GetLineInit(pos))

-----------------------------------------------------------------------------
(* LegacyScriptRead: the command decoder *)

\* TitleCommand command = {}; command.Type = TitleScript::Undefined;
UndefinedCommand ==
    [Type |-> "Undefined", SaveIndex |-> 0, X |-> 0, Y |-> 0, Rotations |-> 0,
     Zoom |-> 0, SpriteIndex |-> 0, SpriteName |-> <<>>, Speed |-> 0,
     Milliseconds |-> 0, Scenario |-> <<>>]

\* The lookup without its break: the last matching entry wins
RECURSIVE ScanSaves_LastMatch(_, _, _)
ScanSaves_LastMatch(part1, saves, i) ==
    IF i >= Len(saves) THEN SAVE_INDEX_INVALID
    ELSE LET later == ScanSaves_LastMatch(part1, saves, i + 1)
         IN IF later # SAVE_INDEX_INVALID THEN later
            ELSE IF StringEquals(part1, saves[i + 1], TRUE) THEN i % 256
            ELSE SAVE_INDEX_INVALID

\* for (i = 0; i < saves.size(); i++) if (String::Equals(part1, saves[i], true))
\*     { SaveIndex = static_cast<uint8_t>(i); break; }
\* i counts from 0; the result is SAVE_INDEX_INVALID when the loop finds nothing.
RECURSIVE ScanSaves(_, _, _)
ScanSaves(part1, saves, i) ==
    IF i >= Len(saves) THEN SAVE_INDEX_INVALID
    ELSE IF StringEquals(part1, saves[i + 1], TRUE) THEN i % 256
    ELSE ScanSaves(part1, saves, i + 1)

\* The body of the do-loop between the call of LegacyScriptGetLine and push_back
DecodeCommand(parts, saves) ==
    LET token == parts[1]
        part1 == parts[2]
        part2 == parts[3]
        command == UndefinedCommand
    IN
    IF token = <<>> THEN command
    ELSE IF stricmp(token, KW_LOAD)
    THEN [command EXCEPT !.Type = "Load",
                         !.SaveIndex = ScanSaves(part1, saves, 0)]
    ELSE IF stricmp(token, KW_LOCATION)
    THEN [command EXCEPT !.Type = "Location",
                         !.X = Mask8(atoi(part1)),
                         !.Y = Mask8(atoi(part2))]
    ELSE IF stricmp(token, KW_ROTATE)
    THEN [command EXCEPT !.Type = "Rotate", !.Rotations = Mask8(atoi(part1))]
    ELSE IF stricmp(token, KW_ZOOM)
    THEN [command EXCEPT !.Type = "Zoom", !.Zoom = Mask8(atoi(part1))]
    ELSE IF stricmp(token, KW_SPEED)
    THEN [command EXCEPT !.Type = "Speed",
                         !.Speed = Max2(1, Min2(4, Mask8(atoi(part1))))]
    ELSE IF stricmp(token, KW_FOLLOW)
    THEN [command EXCEPT !.Type = "Follow",
                         !.SpriteIndex = Mask16(atoi(part1)),
                         !.SpriteName = safe_strcpy(part2, USER_STRING_MAX_LENGTH)]
    ELSE IF stricmp(token, KW_WAIT)
    THEN [command EXCEPT !.Type = "Wait", !.Milliseconds = Mask16(atoi(part1))]
    ELSE IF stricmp(token, KW_RESTART)
    THEN [command EXCEPT !.Type = "Restart"]
    ELSE IF stricmp(token, KW_END)
    THEN [command EXCEPT !.Type = "End"]
    ELSE IF stricmp(token, KW_LOADSC)
    THEN [command EXCEPT !.Type = "LoadSc",
                         !.Scenario = safe_strcpy(part1, TITLE_COMMAND_SCENARIO_LENGTH)]
    ELSE command

\* The loop without its filter: the Undefined command is pushed too
RECURSIVE ReadLoop_KeepUndefined(_, _, _, _)
ReadLoop_KeepUndefined(stream, saves, pos, commands) ==
    LET line == LegacyScriptGetLine(stream, pos)
        commands1 == Append(commands, DecodeCommand(line.parts, saves))
    IN IF line.pos < Len(stream)
       THEN ReadLoop_KeepUndefined(stream, saves, line.pos, commands1)
       ELSE commands1

\* do { ... } while (fs.GetPosition() < fs.GetLength());
RECURSIVE ReadLoop(_, _, _, _)
ReadLoop(stream, saves, pos, commands) ==
    LET line == LegacyScriptGetLine(stream, pos)
        command == DecodeCommand(line.parts, saves)
        commands1 == IF command.Type # "Undefined"
                     THEN Append(commands, command) ELSE commands
    IN IF line.pos < Len(stream)
       THEN ReadLoop(stream, saves, line.pos, commands1)
       ELSE commands1

LegacyScriptRead(stream, saves) == ReadLoop(stream, saves, 0, <<>>)

-----------------------------------------------------------------------------
(* LegacyScriptWrite: the command encoder *)

\* The entry name forgotten: every Load is written with the placeholder
WriteCommand_NoName(command, saves) ==
    CASE command.Type = "Load" ->
            KW_LOAD \o <<" ">> \o NO_SAVE_FILE
      [] command.Type = "LoadSc" ->
            IF command.Scenario = <<>>
            THEN KW_LOADSC \o <<" ">> \o NO_SCENARIO_NAME
            ELSE KW_LOADSC \o <<" ">> \o command.Scenario
      [] command.Type \in {"Undefined", "Loop", "EndLoop"} -> <<>>
      [] command.Type = "Location" ->
            KW_LOCATION \o <<" ">> \o FormatU(command.X)
                        \o <<" ">> \o FormatU(command.Y)
      [] command.Type = "Rotate" ->
            KW_ROTATE \o <<" ">> \o FormatU(command.Rotations)
      [] command.Type = "Zoom" ->
            KW_ZOOM \o <<" ">> \o FormatU(command.Zoom)
      [] command.Type = "Follow" ->
            KW_FOLLOW \o <<" ">> \o FormatU(command.SpriteIndex) \o <<" ">>
                      \o command.SpriteName
      [] command.Type = "Speed" ->
            KW_SPEED \o <<" ">> \o FormatU(command.Speed)
      [] command.Type = "Wait" ->
            KW_WAIT \o <<" ">> \o FormatU(command.Milliseconds)
      [] command.Type = "Restart" -> KW_RESTART
      [] command.Type = "End" -> KW_END

\* The text one command appends before its "\n"
WriteCommand(command, saves) ==
    CASE command.Type = "Load" ->
            IF command.SaveIndex < Len(saves)
            THEN KW_LOAD \o <<" ">> \o saves[command.SaveIndex + 1]
            ELSE KW_LOAD \o <<" ">> \o NO_SAVE_FILE
      [] command.Type = "LoadSc" ->
            IF command.Scenario = <<>>
            THEN KW_LOADSC \o <<" ">> \o NO_SCENARIO_NAME
            ELSE KW_LOADSC \o <<" ">> \o command.Scenario
      [] command.Type \in {"Undefined", "Loop", "EndLoop"} -> <<>>
      [] command.Type = "Location" ->
            KW_LOCATION \o <<" ">> \o FormatU(command.X)
                        \o <<" ">> \o FormatU(command.Y)
      [] command.Type = "Rotate" ->
            KW_ROTATE \o <<" ">> \o FormatU(command.Rotations)
      [] command.Type = "Zoom" ->
            KW_ZOOM \o <<" ">> \o FormatU(command.Zoom)
      [] command.Type = "Follow" ->
            KW_FOLLOW \o <<" ">> \o FormatU(command.SpriteIndex) \o <<" ">>
                      \o command.SpriteName
      [] command.Type = "Speed" ->
            KW_SPEED \o <<" ">> \o FormatU(command.Speed)
      [] command.Type = "Wait" ->
            KW_WAIT \o <<" ">> \o FormatU(command.Milliseconds)
      [] command.Type = "Restart" -> KW_RESTART
      [] command.Type = "End" -> KW_END

\* The commands that write no text are skipped, newline included
RECURSIVE WriteCommands_SkipInert(_, _, _)
WriteCommands_SkipInert(commands, saves, i) ==
    IF i > Len(commands) THEN <<>>
    ELSE (IF commands[i].Type \in {"Undefined", "Loop", "EndLoop"} THEN <<>>
          ELSE WriteCommand(commands[i], saves) \o <<"\n">>)
         \o WriteCommands_SkipInert(commands, saves, i + 1)

RECURSIVE WriteCommands(_, _, _)
WriteCommands(commands, saves, i) ==
    IF i > Len(commands) THEN <<>>
    ELSE WriteCommand(commands[i], saves) \o <<"\n">>
         \o WriteCommands(commands, saves, i + 1)

LegacyScriptWrite(name, saves, commands) ==
    SCRIPT_FOR \o name \o <<"\n">> \o WriteCommands(commands, saves, 1)

-----------------------------------------------------------------------------
(* TitleSequenceSave *)

\* TitleSequenceSave(seq): the script is written to script.txt of the
\* directory or of the archive; fail names the backend call that throws.
\* stored is what script.txt holds afterwards.
SaveFailures(isZip) ==
    IF isZip THEN {"none", "Open", "SetFileData"} ELSE {"none", "WriteAllBytes"}

TitleSequenceSave(name, saves, commands, isZip, fail, stored) ==
    LET scriptText == LegacyScriptWrite(name, saves, commands)
    IN IF fail = "none"
       THEN [ret |-> "true", stored |-> scriptText]
       ELSE [ret |-> "false", stored |-> stored]

-----------------------------------------------------------------------------

(* The sequence store: TitleSequenceAddPark / RenamePark / RemovePark *)

(* Every operation below is a function of the sequence and of its inputs,    *)
(* one of which, fail, names the backend call that fails ("none" when all    *)
(* succeed).  The result records what the call returned (ret: "true",        *)
(* "false", "throw" when an exception leaves the function, "abort" when the  *)
(* guard assertion stops the program), the backend calls it made in order    *)
(* (calls), the save list elements it read or wrote (touched) and the        *)
(* sequence's lists after it.                                                *)

Contains(saves, s) == \E i \in 1..Len(saves) : saves[i] = s

\* Erase gone wrong: the last entry is dropped whatever the index
Erase_PopBack(saves, index) ==
    SubSeq(saves, 1, Len(saves) - 1)

\* seq.Saves.erase(seq.Saves.begin() + index), index counted from 0
Erase(saves, index) ==
    SubSeq(saves, 1, index) \o SubSeq(saves, index + 2, Len(saves))

\* Guard::Assert(expression, GUARD_LINE): the program goes on only when the
\* expression holds
GuardAssert(expression) == expression

\* The outcomes of the backend calls of each operation
AddFailures(isZip) ==
    IF isZip THEN {"none", "ReadAllBytes", "TryOpen", "SetFileData"}
    ELSE {"none", "Copy"}
RenameFailures(isZip) ==
    IF isZip THEN {"none", "TryOpen", "RenameFile"} ELSE {"none", "Move"}
RemoveFailures(isZip) ==
    IF isZip THEN {"none", "TryOpen", "DeleteFile"} ELSE {"none", "Delete"}

TitleSequenceAddPark(saves, commands, isZip, path, name, fail) ==
    LET saves1 == IF ~Contains(saves, path) THEN Append(saves, name) ELSE saves
        res(ret, calls) ==
            [ret |-> ret, calls |-> calls, touched |-> {},
             Saves |-> saves1, Commands |-> commands]
    IN
    IF isZip
    THEN IF fail = "ReadAllBytes"
         THEN res("true", <<"ReadAllBytes">>)       \* caught, falls to return true
         ELSE IF fail = "TryOpen"
         THEN res("false", <<"ReadAllBytes", "TryOpen">>)
         ELSE res("true", <<"ReadAllBytes", "TryOpen", "SetFileData">>)
    ELSE IF fail = "Copy"
         THEN res("false", <<"Copy">>)
         ELSE res("true", <<"Copy">>)

\* RenamePark gone wrong: the renamed entry is erased and appended, so it
\* changes position
TitleSequenceRenamePark_Reinsert(saves, commands, isZip, index, name, fail) ==
    LET res(ret, calls, touched, saves1) ==
            [ret |-> ret, calls |-> calls, touched |-> touched,
             Saves |-> saves1, Commands |-> commands]
        io == IF isZip THEN <<"TryOpen", "RenameFile">> ELSE <<"Move">>
    IN
    IF ~GuardAssert(index < Len(saves))
    THEN res("abort", <<>>, {}, saves)
    ELSE IF fail = "TryOpen" THEN res("false", <<"TryOpen">>, {index}, saves)
    ELSE IF fail = "RenameFile" THEN res("throw", io, {index}, saves)
    ELSE IF fail = "Move" THEN res("false", io, {index}, saves)
    ELSE res("true", io, {index}, Append(Erase(saves, index), name))

\* RenamePark gone wrong: the guard assertion comes after the backend calls
TitleSequenceRenamePark_LateGuard(saves, commands, isZip, index, name, fail) ==
    LET res(ret, calls, touched, saves1) ==
            [ret |-> ret, calls |-> calls, touched |-> touched,
             Saves |-> saves1, Commands |-> commands]
        io == IF isZip THEN <<"TryOpen", "RenameFile">> ELSE <<"Move">>
    IN
    IF fail = "TryOpen" THEN res("false", <<"TryOpen">>, {index}, saves)
    ELSE IF fail = "RenameFile" THEN res("throw", io, {index}, saves)
    ELSE IF fail = "Move" THEN res("false", io, {index}, saves)
    ELSE IF ~GuardAssert(index < Len(saves))
    THEN res("abort", io, {index}, saves)
    ELSE res("true", io, {index}, [saves EXCEPT ![index + 1] = name])

TitleSequenceRenamePark(saves, commands, isZip, index, name, fail) ==
    LET res(ret, calls, touched, saves1) ==
            [ret |-> ret, calls |-> calls, touched |-> touched,
             Saves |-> saves1, Commands |-> commands]
    IN
    IF ~GuardAssert(index < Len(saves))
    THEN res("abort", <<>>, {}, saves)
    ELSE IF isZip
    THEN IF fail = "TryOpen"
         THEN res("false", <<"TryOpen">>, {index}, saves)
         ELSE IF fail = "RenameFile"
         THEN res("throw", <<"TryOpen", "RenameFile">>, {index}, saves)
         ELSE res("true", <<"TryOpen", "RenameFile">>, {index},
                  [saves EXCEPT ![index + 1] = name])
    ELSE IF fail = "Move"
         THEN res("false", <<"Move">>, {index}, saves)
         ELSE res("true", <<"Move">>, {index},
                  [saves EXCEPT ![index + 1] = name])

\* The loop body gone wrong: later indices are not shifted
UpdateLoadCommand_NoShift(command, index) ==
    IF command.Type = "Load" /\ command.SaveIndex = index
    THEN [command EXCEPT !.SaveIndex = SAVE_INDEX_INVALID]
    ELSE command

\* The body of the loop "Update load commands" for one command
UpdateLoadCommand(command, index) ==
    IF command.Type = "Load"
    THEN IF command.SaveIndex = index
         THEN [command EXCEPT !.SaveIndex = SAVE_INDEX_INVALID]
         ELSE IF command.SaveIndex > index
         THEN [command EXCEPT !.SaveIndex = (@ - 1) % 256]
         ELSE command
    ELSE command

\* RemovePark gone wrong: the lists are updated before the backend calls, so
\* a failed call leaves them changed
TitleSequenceRemovePark_UpdateFirst(saves, commands, isZip, index, fail) ==
    LET res(ret, calls, touched, saves1, commands1) ==
            [ret |-> ret, calls |-> calls, touched |-> touched,
             Saves |-> saves1, Commands |-> commands1]
        updated == [i \in 1..Len(commands) |->
                        UpdateLoadCommand(commands[i], index)]
        io == IF isZip THEN <<"TryOpen", "DeleteFile">> ELSE <<"Delete">>
        ret == IF fail \in {"TryOpen", "Delete"} THEN "false"
               ELSE IF fail = "DeleteFile" THEN "throw" ELSE "true"
    IN
    IF ~GuardAssert(index < Len(saves))
    THEN res("abort", <<>>, {}, saves, commands)
    ELSE res(ret, IF fail = "TryOpen" THEN <<"TryOpen">> ELSE io, {index},
             Erase(saves, index), updated)

TitleSequenceRemovePark(saves, commands, isZip, index, fail) ==
    LET res(ret, calls, touched, saves1, commands1) ==
            [ret |-> ret, calls |-> calls, touched |-> touched,
             Saves |-> saves1, Commands |-> commands1]
        updated == [i \in 1..Len(commands) |->
                        UpdateLoadCommand(commands[i], index)]
    IN
    IF ~GuardAssert(index < Len(saves))
    THEN res("abort", <<>>, {}, saves, commands)
    ELSE IF isZip
    THEN IF fail = "TryOpen"
         THEN res("false", <<"TryOpen">>, {index}, saves, commands)
         ELSE IF fail = "DeleteFile"
         THEN res("throw", <<"TryOpen", "DeleteFile">>, {index}, saves, commands)
         ELSE res("true", <<"TryOpen", "DeleteFile">>, {index},
                  Erase(saves, index), updated)
    ELSE IF fail = "Delete"
         THEN res("false", <<"Delete">>, {index}, saves, commands)
         ELSE res("true", <<"Delete">>, {index}, Erase(saves, index), updated)

-----------------------------------------------------------------------------
(* Inputs *)

\* bounds of the model
MaxSaves == 3       \* AddPark is not called on a longer save list
MaxOps == 3         \* number of AddPark / RenamePark / RemovePark calls
MaxLines == 2       \* number of lines of a script of the round-trip inputs

SaveA == <<"a",".","s","v","6">>
SaveB == <<"b",".","s","v","6">>
SaveC == <<"c",".","s","v","6">>
SavePool == {SaveA, SaveB, SaveC}
\* a source path that is no entry name, and one spelled like the entry SaveA
SourcePaths == { <<"/","x","/">> \o SaveC, SaveA }

SeqName == <<"s","e","q">>
DirPath == <<"/","t","/">> \o SeqName
ZipPath == DirPath \o <<".","p","a","r","k","s","e","q">>

LoadLine(name) == KW_LOAD \o <<" ">> \o name
WaitLine == KW_WAIT \o <<" ","5">>

\* script.txt: every line followed by a newline
RECURSIVE Script(_)
Script(lines) ==
    IF lines = <<>> THEN <<>>
    ELSE Head(lines) \o <<"\n">> \o Script(Tail(lines))

\* the scripts and save lists a sequence is loaded from
InitScripts ==
    { Script(<<LoadLine(SaveA), LoadLine(SaveB)>>),
      Script(<<LoadLine(SaveB), WaitLine, LoadLine(SaveC)>>),
      Script(<<LoadLine(SaveC), KW_END>>),
      Script(<<LoadLine(SaveA), WaitLine>>) }
InitSaves == { <<SaveA, SaveB>>, <<SaveB, SaveA>>, <<SaveA>> }

-----------------------------------------------------------------------------
(* The state machine of one loaded sequence *)

NoCall ==
    [op |-> "none", index |-> 0, path |-> <<>>, name |-> <<>>, fail |-> "none",
     ret |-> "none", calls |-> <<>>, touched |-> {},
     Saves |-> <<>>, Commands |-> <<>>, Name |-> <<>>, Path |-> <<>>,
     IsZip |-> FALSE]

\* no tokenizer call is being observed
NoLine == [stage |-> "none"]

\* the names of the entries of a save list
EntryNames(saves) == {saves[i] : i \in 1..Len(saves)}
\* LoadTitleSequence has not been called again
NoSequence == [Name |-> <<>>, Path |-> <<>>, Saves |-> <<>>, Commands |-> <<>>,
               IsZip |-> FALSE]

\* The save files after a call.  The copy of AddPark (File::Copy, or
\* SetFileData of the archive) stores a file under the new name unless a
\* backend call failed; the move of RenamePark and the delete of RemovePark
\* took place when the call returned true.
FilesAfterAdd(stored, name, fail) ==
    IF fail = "none" THEN stored \cup {name} ELSE stored
FilesAfterRename(stored, saves, index, name, ret) ==
    IF ret = "true" THEN (stored \ {saves[index + 1]}) \cup {name} ELSE stored
FilesAfterRemove(stored, saves, index, ret) ==
    IF ret = "true" THEN stored \ {saves[index + 1]} ELSE stored

\* the call just made: its inputs, what it returned and did, the sequence before
Call(op, index, path, name, fail, r) ==
    [op |-> op, index |-> index, path |-> path, name |-> name, fail |-> fail,
     ret |-> r.ret, calls |-> r.calls, touched |-> r.touched,
     Saves |-> Saves, Commands |-> Commands, Name |-> Name, Path |-> Path,
     IsZip |-> IsZip]

\* LoadTitleSequence(path) returned a sequence
Init ==
    /\ \E isZip \in BOOLEAN :
        /\ IsZip = isZip
        /\ Path = IF isZip THEN ZipPath ELSE DirPath
    /\ Name = SeqName
    /\ libc = "strtol"
    /\ lineCall = NoLine
    /\ script \in InitScripts
    /\ Saves \in InitSaves
    /\ Commands = LegacyScriptRead(script, Saves)
    /\ text = <<>>
    /\ reread = <<>>
    /\ pc = "loaded"
    /\ nops = 0
    /\ last = NoCall
    /\ files = EntryNames(Saves)
    /\ loaded = NoSequence
    /\ NoUserManager

CanCall ==
    /\ pc = "loaded"
    /\ nops < MaxOps
    /\ last.ret # "abort"

AddPark ==
    /\ CanCall
    /\ Len(Saves) < MaxSaves
    /\ \E path \in SourcePaths, name \in SavePool, fail \in AddFailures(IsZip) :
        LET r == TitleSequenceAddPark(Saves, Commands, IsZip, path, name, fail)
        IN /\ Saves' = r.Saves
           /\ Commands' = r.Commands
           /\ last' = Call("Add", 0, path, name, fail, r)
           /\ files' = FilesAfterAdd(files, name, fail)
    /\ nops' = nops + 1
    /\ UNCHANGED <<Name, Path, IsZip, script, text, reread, pc, lineCall, libc,
                   loaded, userVars>>

RenamePark ==
    /\ CanCall
    /\ \E index \in 0..Len(Saves), name \in SavePool,
          fail \in RenameFailures(IsZip) :
        LET r == TitleSequenceRenamePark(Saves, Commands, IsZip, index, name, fail)
        IN /\ Saves' = r.Saves
           /\ Commands' = r.Commands
           /\ last' = Call("Rename", index, <<>>, name, fail, r)
           /\ files' = FilesAfterRename(files, Saves, index, name, r.ret)
    /\ nops' = nops + 1
    /\ UNCHANGED <<Name, Path, IsZip, script, text, reread, pc, lineCall, libc,
                   loaded, userVars>>

RemovePark ==
    /\ CanCall
    /\ \E index \in 0..Len(Saves), fail \in RemoveFailures(IsZip) :
        LET r == TitleSequenceRemovePark(Saves, Commands, IsZip, index, fail)
        IN /\ Saves' = r.Saves
           /\ Commands' = r.Commands
           /\ last' = Call("Remove", index, <<>>, <<>>, fail, r)
           /\ files' = FilesAfterRemove(files, Saves, index, r.ret)
    /\ nops' = nops + 1
    /\ UNCHANGED <<Name, Path, IsZip, script, text, reread, pc, lineCall, libc,
                   loaded, userVars>>

Next == AddPark \/ RenamePark \/ RemovePark

Spec == Init /\ [][Next]_vars

-----------------------------------------------------------------------------
(* Decoding, encoding and decoding again *)

\* lines of script text: every keyword, masked and clamped numbers, a comment,
\* embedded spaces, a lower-case keyword, an unknown keyword and missing
\* arguments
ScriptLines ==
    { LoadLine(SaveA),
      <<"l","o","a","d"," ","A",".","S","V","6">>,
      LoadLine(SaveC),
      KW_LOADSC,
      KW_LOADSC \o <<" ","m","y"," ","s","c">>,
      KW_LOCATION \o <<" ","3","0","0"," ","-","1">>,
      KW_LOCATION \o <<" ","1","0"," ","2","0"," ">> \o KW_END,
      KW_ROTATE \o <<" ","2"," ","#"," ","t">>,
      KW_ZOOM \o <<" ","x">>,
      KW_SPEED \o <<" ","9">>,
      KW_FOLLOW \o <<" ","5"," ","a"," ","b">>,
      KW_FOLLOW,
      KW_WAIT \o <<" ","7","0","0","0","0">>,
      KW_RESTART,
      <<"#"," ","c">>,
      <<"j","u","n","k">> }

\* the sequences of 1..n elements of S
RECURSIVE SeqsUpTo(_, _)
SeqsUpTo(S, n) ==
    IF n = 0 THEN {}
    ELSE LET shorter == SeqsUpTo(S, n - 1)
         IN {<<x>> : x \in S} \cup shorter
            \cup {Append(q, x) : q \in shorter, x \in S}

RTScripts == {Script(lines) : lines \in SeqsUpTo(ScriptLines, MaxLines)}
RTSaves == { <<>>, <<SaveB, SaveA>>, <<SaveA, <<"A",".","S","V","6">> >> }

InitRT ==
    /\ Name = SeqName
    /\ Path = DirPath
    /\ IsZip = FALSE
    /\ libc = "strtol"
    /\ lineCall = NoLine
    /\ script \in RTScripts
    /\ Saves \in RTSaves
    /\ Commands = <<>>
    /\ text = <<>>
    /\ reread = <<>>
    /\ pc = "start"
    /\ nops = 0
    /\ last = NoCall
    /\ files = EntryNames(Saves)
    /\ loaded = NoSequence
    /\ NoUserManager

\* commands = LegacyScriptRead(script, saves)
RTDecode ==
    /\ pc = "start"
    /\ Commands' = LegacyScriptRead(script, Saves)
    /\ pc' = "decoded"
    /\ UNCHANGED <<Name, Path, Saves, IsZip, script, text, reread, nops, last,
                 lineCall, libc,
                   files, loaded, userVars>>

\* script = LegacyScriptWrite(seq)
RTEncode ==
    /\ pc = "decoded"
    /\ text' = LegacyScriptWrite(Name, Saves, Commands)
    /\ pc' = "encoded"
    /\ UNCHANGED <<Name, Path, Saves, Commands, IsZip, script, reread, nops, last,
                 lineCall, libc,
                   files, loaded, userVars>>

\* LegacyScriptRead of the written text against the same saves
RTRedecode ==
    /\ pc = "encoded"
    /\ reread' = LegacyScriptRead(text, Saves)
    /\ pc' = "done"
    /\ UNCHANGED <<Name, Path, Saves, Commands, IsZip, script, text, nops, last,
                 lineCall, libc,
                   files, loaded, userVars>>

NextRT == RTDecode \/ RTEncode \/ RTRedecode

SpecRT == InitRT /\ [][NextRT]_vars

-----------------------------------------------------------------------------
(* One line through the tokenizer and the decoder *)

\* bounds of the line inputs
MaxSpaces == 2      \* longest run of spaces between two fields
Excess == 3         \* characters a long field has beyond the field capacity

Spaces(n) == [i \in 1..n |-> " "]
\* a field of n characters, all different from their neighbours
LettersField(n) == [i \in 1..n |-> LowerCase[((i - 1) % 26) + 1]]
LongField == LettersField(PART_SIZE - 1 + Excess)

LoadLower == <<"l","o","a","d">>
MyText == <<"m","y">>
ParkText == <<"p",".","s","v","6">>
MyPark == MyText \o <<" ">> \o ParkText
Num2 == <<"2">>
Num10 == <<"1","0">>
Num20 == <<"2","0">>

\* A line is built from a first field, a second and a third field (either may
\* be absent), the runs of spaces between them and what follows the third.
LineFirsts ==
    { <<>>, KW_LOAD, LoadLower, KW_LOADSC, KW_FOLLOW, KW_LOCATION, KW_ROTATE,
      LongField }
LineSeconds == { Num10, Num2, MyText, LongField }
LineThirds == { Num20, ParkText }
\* nothing, a fourth field, a comment after a space, a comment at once
LineTails == { <<>>, <<" ">> \o KW_END, <<" ","#"," ","c">>, <<"#","c">> }
\* a newline and one more line, a carriage return and a newline, the end of input
LineEnds == { <<"\n">> \o KW_END \o <<"\n">>, <<"\r","\n">>, <<>> }

LineInputs ==
    { [first |-> f, sep1 |-> 0, a |-> <<>>, sep2 |-> 0, b |-> <<>>,
       tail |-> t, end |-> e] :
          f \in LineFirsts, t \in LineTails, e \in LineEnds }
    \cup
    { [first |-> f, sep1 |-> n1, a |-> a, sep2 |-> 0, b |-> <<>>,
       tail |-> t, end |-> e] :
          f \in LineFirsts, n1 \in 1..MaxSpaces, a \in LineSeconds,
          t \in LineTails, e \in LineEnds }
    \cup
    { [first |-> f, sep1 |-> n1, a |-> a, sep2 |-> n2, b |-> b,
       tail |-> t, end |-> e] :
          f \in LineFirsts, n1 \in 1..MaxSpaces, a \in LineSeconds,
          n2 \in 1..MaxSpaces, b \in LineThirds,
          t \in LineTails, e \in LineEnds }

\* the text of the line, without what ends it
LineText(in) ==
    in.first \o Spaces(in.sep1) \o in.a \o Spaces(in.sep2) \o in.b \o in.tail

NoInput ==
    [first |-> <<>>, sep1 |-> 0, a |-> <<>>, sep2 |-> 0, b |-> <<>>,
     tail |-> <<>>, end |-> <<>>]

\* the observation of one pass of the do-loop of LegacyScriptRead
LineCall(stage, in, parts, pos, cmd) ==
    [stage |-> stage, in |-> in, parts |-> parts, pos |-> pos, cmd |-> cmd,
     mem |-> [o \in {} |-> NUL], writes |-> {}]

TokSaves == <<SaveA, MyPark>>

InitTok ==
    /\ Name = SeqName
    /\ Path = DirPath
    /\ IsZip = FALSE
    /\ libc = "strtol"
    /\ \E in \in LineInputs :
        /\ script = LineText(in) \o in.end
        /\ lineCall = LineCall("input", in, << <<>>, <<>>, <<>> >>, 0,
                               UndefinedCommand)
    /\ Saves = TokSaves
    /\ Commands = <<>>
    /\ text = <<>>
    /\ reread = <<>>
    /\ pc = "start"
    /\ nops = 0
    /\ last = NoCall
    /\ files = EntryNames(Saves)
    /\ loaded = NoSequence
    /\ NoUserManager

\* LegacyScriptGetLine(&fs, parts), the stream at the start of script
TokGetLine ==
    /\ lineCall.stage = "input"
    /\ LET line == LegacyScriptGetLine(script, 0)
       IN lineCall' = [lineCall EXCEPT !.stage = "tokenized",
                                       !.parts = line.parts,
                                       !.pos = line.pos,
                                       !.mem = line.mem,
                                       !.writes = line.writes]
    /\ UNCHANGED <<Name, Path, Saves, Commands, IsZip, script, text, reread, pc,
                   nops, last, libc,
                   files, loaded, userVars>>

\* the rest of the pass: the command of the fields, pushed unless Undefined
TokDecode ==
    /\ lineCall.stage = "tokenized"
    /\ LET command == DecodeCommand(lineCall.parts, Saves)
       IN /\ lineCall' = [lineCall EXCEPT !.stage = "decoded", !.cmd = command]
          /\ Commands' = IF command.Type # "Undefined"
                         THEN Append(Commands, command) ELSE Commands
    /\ UNCHANGED <<Name, Path, Saves, IsZip, script, text, reread, pc, nops, last,
                   libc,
                   files, loaded, userVars>>

NextTok == TokGetLine \/ TokDecode

SpecTok == InitTok /\ [][NextTok]_vars

\* The decoder alone: the fields are any three texts the tokenizer can return.
\* The numbers are below 2^63.
DecTokens ==
    { KW_LOAD, LoadLower, KW_LOCATION, KW_ROTATE, KW_ZOOM, KW_SPEED, KW_FOLLOW,
      KW_WAIT, <<"j","u","n","k">> }
SaveAUpper == <<"A",".","S","V","6">>
DecFirstArgs ==
    { <<>>, <<"0">>, Num2, <<"9">>, <<"3","0","0">>, <<"-","1">>,
      <<"7","0","0","0","0">>, <<"x">>,
      <<"2","1","4","7","4","8","3","6","4","7">>,
      <<"2","1","4","7","4","8","3","6","4","8">>,
      <<"-","2","1","4","7","4","8","3","6","4","9">>,
      SaveA, SaveAUpper, SaveC }
DecSecondArgs == { <<>>, <<"-","1">>, <<"3","0","0">>, <<"x">> }
DecSaves ==
    { <<>>, <<SaveB, SaveA>>, <<SaveB, SaveAUpper, SaveA>>,
      <<SaveA, SaveB, SaveAUpper>> }

InitDec ==
    /\ Name = SeqName
    /\ Path = DirPath
    /\ IsZip = FALSE
    /\ libc \in {"strtol", "saturate"}
    /\ script = <<>>
    /\ \E token \in DecTokens, part1 \in DecFirstArgs, part2 \in DecSecondArgs :
        lineCall = LineCall("tokenized", NoInput, <<token, part1, part2>>, 0,
                            UndefinedCommand)
    /\ Saves \in DecSaves
    /\ Commands = <<>>
    /\ text = <<>>
    /\ reread = <<>>
    /\ pc = "start"
    /\ nops = 0
    /\ last = NoCall
    /\ files = EntryNames(Saves)
    /\ loaded = NoSequence
    /\ NoUserManager

NextDec == TokDecode

SpecDec == InitDec /\ [][NextDec]_vars

-----------------------------------------------------------------------------
(* A LOAD line decoded against a long save list *)

\* number of entries of the long save list: positions 0..BigSaves - 1
BigSaves == 257

\* the entry at position i, named after its position
BigName(i) == <<"s">> \o FormatU(i) \o <<".","s","v","6">>
BigList == [k \in 1..BigSaves |-> BigName(k - 1)]

\* the fields of LOAD <name>, the name being the one of any entry of the list
InitBig ==
    /\ Name = SeqName
    /\ Path = DirPath
    /\ IsZip = FALSE
    /\ libc = "strtol"
    /\ script = <<>>
    /\ \E i \in 0..(BigSaves - 1) :
        lineCall = LineCall("tokenized", NoInput, <<KW_LOAD, BigName(i), <<>> >>,
                            0, UndefinedCommand)
    /\ Saves = BigList
    /\ Commands = <<>>
    /\ text = <<>>
    /\ reread = <<>>
    /\ pc = "start"
    /\ nops = 0
    /\ last = NoCall
    /\ files = {}
    /\ loaded = NoSequence
    /\ NoUserManager

NextBig == TokDecode

SpecBig == InitBig /\ [][NextBig]_vars

-----------------------------------------------------------------------------

(* The do-while loop of LegacyScriptRead, one pass at a time *)

\* Streams that are not made of whole lines: the empty script, a last line
\* without a newline, empty lines, carriage returns, a comment alone, and
\* lines longer than the three fields hold.
LoopStreams ==
    { <<>>,
      KW_END,
      <<"\n">>,
      <<"\n", "\n">>,
      <<"\r", "\n">>,
      KW_END \o <<"\r", "\n">> \o KW_WAIT \o <<" ", "1", "\r", "\n">>,
      <<"#", " ", "c">>,
      LoadLine(SaveA) \o <<"\n">> \o KW_END,
      LongField,
      LongField \o <<"\n">> \o KW_END }
LoopScripts == RTScripts \cup LoopStreams
LoopSaves == <<SaveB, SaveA>>

\* auto fs = MemoryStream(script.data(), script.size()): the position is 0,
\* no pass made yet
InitLoop ==
    /\ Name = SeqName
    /\ Path = DirPath
    /\ IsZip = FALSE
    /\ libc = "strtol"
    /\ script \in LoopScripts
    /\ lineCall = LineCall("reading", NoInput, << <<>>, <<>>, <<>> >>, 0,
                           UndefinedCommand)
    /\ Saves = LoopSaves
    /\ Commands = <<>>
    /\ text = <<>>
    /\ reread = <<>>
    /\ pc = "start"
    /\ nops = 0
    /\ last = NoCall
    /\ files = EntryNames(Saves)
    /\ loaded = NoSequence
    /\ NoUserManager

\* One pass of do { ... } while (fs.GetPosition() < fs.GetLength()): the
\* tokenizer call, the command of its fields pushed unless Undefined, and the
\* loop test.  nops counts the tokenizer calls.
ReadPass ==
    /\ lineCall.stage = "reading"
    /\ LET line == LegacyScriptGetLine(script, lineCall.pos)
           command == DecodeCommand(line.parts, Saves)
       IN /\ lineCall' = [lineCall EXCEPT
                              !.stage = IF line.pos < Len(script)
                                        THEN "reading" ELSE "returned",
                              !.parts = line.parts,
                              !.pos = line.pos,
                              !.cmd = command,
                              !.mem = line.mem,
                              !.writes = line.writes]
          /\ Commands' = IF command.Type # "Undefined"
                         THEN Append(Commands, command) ELSE Commands
    /\ nops' = nops + 1
    /\ UNCHANGED <<Name, Path, Saves, IsZip, script, text, reread, pc, last, libc,
                   files, loaded, userVars>>

NextLoop == ReadPass

\* A step that makes a pass: possible as long as the loop has not been left,
\* and every such step of NextLoop is a ReadPass step.
TakesPass == lineCall.stage = "reading" /\ nops' = nops + 1

\* The loop is straight-line code of one thread: a pass that can be made is made.
SpecLoop == InitLoop /\ [][NextLoop]_vars /\ WF_nops(TakesPass)

-----------------------------------------------------------------------------

(* Entries removed from a loaded sequence, which is then saved *)

LoopCommand == [UndefinedCommand EXCEPT !.Type = "Loop"]
EndLoopCommand == [UndefinedCommand EXCEPT !.Type = "EndLoop"]
EndCommand == [UndefinedCommand EXCEPT !.Type = "End"]

\* LOAD of the only entry, then END
LoadEndScript == Script(<<LoadLine(SaveA), KW_END>>)
EncScripts ==
    { LoadEndScript,
      Script(<<LoadLine(SaveB), WaitLine, LoadLine(SaveA)>>),
      Script(<<LoadLine(SaveC), KW_LOADSC>>),
      Script(<<KW_LOCATION \o <<" ","3","0","0"," ","-","1">>,
               KW_FOLLOW \o <<" ","5"," ","a"," ","b">>,
               KW_RESTART>>) }
EncSaves == { <<SaveA>>, <<SaveA, SaveB>>, <<SaveB, SaveA>> }
\* commands the caller added to the decoded ones
EncExtras ==
    { <<>>, <<LoopCommand, UndefinedCommand>>, <<EndLoopCommand, EndCommand>> }

InitEnc ==
    /\ \E isZip \in BOOLEAN :
        /\ IsZip = isZip
        /\ Path = IF isZip THEN ZipPath ELSE DirPath
    /\ Name = SeqName
    /\ libc = "strtol"
    /\ lineCall = NoLine
    /\ script \in EncScripts
    /\ Saves \in EncSaves
    /\ \E extra \in EncExtras :
        Commands = LegacyScriptRead(script, Saves) \o extra
    /\ text = script
    /\ reread = <<>>
    /\ pc = "loaded"
    /\ nops = 0
    /\ last = NoCall
    /\ files = EntryNames(Saves)
    /\ loaded = NoSequence
    /\ NoUserManager

\* TitleSequenceSave(seq); text is what script.txt holds
SaveSequence ==
    /\ pc = "loaded"
    /\ last.ret # "abort"
    /\ \E fail \in SaveFailures(IsZip) :
        LET r == TitleSequenceSave(Name, Saves, Commands, IsZip, fail, text)
        IN /\ text' = r.stored
           /\ pc' = IF r.ret = "true" THEN "saved" ELSE "save failed"
    /\ UNCHANGED <<Name, Path, Saves, Commands, IsZip, script, reread, nops, last,
                   lineCall, libc,
                   files, loaded, userVars>>

NextEnc == RemovePark \/ SaveSequence

SpecEnc == InitEnc /\ [][NextEnc]_vars

-----------------------------------------------------------------------------

(* TitleSequenceGetParkHandle *)

\* what an out-of-range seq.Saves[index] can give: the program stops, or some
\* bytes are taken for a file name
OutOfRangeReads == {"crash", "garbage"}
GarbageName == <<"?">>
ParkHandleFailures(isZip) ==
    IF isZip THEN {"none", "TryOpen", "GetFileData"} ELSE {"none", "FileStream"}

\* TitleSequenceGetParkHandle(seq, index).  ret is "handle" when a handle is
\* returned, "none" when the null handle is, "throw", or "crash"; touched
\* holds the positions of seq.Saves that were indexed; HintPath is the hint
\* path of the handle.  Reading seq.Saves[index] with index == size is
\* undefined; ub is what this read gives.
TitleSequenceGetParkHandle(saves, isZip, index, fail, ub) ==
    LET res(ret, calls, touched, hint) ==
            [ret |-> ret, calls |-> calls, touched |-> touched,
             HintPath |-> hint]
        filename == IF index < Len(saves) THEN saves[index + 1] ELSE GarbageName
    IN
    IF ~(index <= Len(saves))
    THEN res("none", <<>>, {}, <<>>)
    ELSE IF index = Len(saves) /\ ub = "crash"
    THEN res("crash", <<>>, {index}, <<>>)
    ELSE IF isZip
    THEN IF fail = "TryOpen"
         THEN res("none", <<"TryOpen">>, {index}, <<>>)
         ELSE IF fail = "GetFileData"
         THEN res("throw", <<"TryOpen", "GetFileData">>, {index}, <<>>)
         ELSE res("handle", <<"TryOpen", "GetFileData">>, {index}, filename)
    ELSE IF fail = "FileStream"
         THEN res("none", <<"FileStream">>, {index}, <<>>)
         ELSE res("handle", <<"FileStream">>, {index}, filename)

-----------------------------------------------------------------------------

(* A sequence changed by successful calls, saved and loaded again *)

\* Path::GetFileNameWithoutExtension(path): what follows the last '/', up to
\* its last '.'
FileNameWithoutExtension(path) ==
    LET slashes == {i \in 1..Len(path) : path[i] = "/"}
        from == IF slashes = {} THEN 1
                ELSE (CHOOSE i \in slashes : \A j \in slashes : j <= i) + 1
        dots == {i \in from..Len(path) : path[i] = "."}
        to == IF dots = {} THEN Len(path)
              ELSE (CHOOSE i \in dots : \A j \in dots : j <= i) - 1
    IN SubSeq(path, from, to)

\* LoadTitleSequence(path): stored is what script.txt holds, listing the save
\* files as the directory scan or the archive enumerates them; no sequence is
\* returned when script.txt is empty
LoadTitleSequence(path, stored, listing, isZip) ==
    IF stored = <<>> THEN NoSequence
    ELSE [Name |-> FileNameWithoutExtension(path), Path |-> path,
          Saves |-> listing, Commands |-> LegacyScriptRead(stored, listing),
          IsZip |-> isZip]

\* the orders in which the files of a set can be enumerated
RECURSIVE Listings(_)
Listings(S) ==
    IF S = {} THEN {<<>>}
    ELSE UNION {{<<x>> \o l : l \in Listings(S \ {x})} : x \in S}

PersistScripts ==
    { Script(<<LoadLine(SaveA), LoadLine(SaveB)>>),
      Script(<<LoadLine(SaveC), KW_END>>),
      Script(<<LoadLine(SaveB), WaitLine>>) }

InitPersist ==
    /\ \E isZip \in BOOLEAN :
        /\ IsZip = isZip
        /\ Path = IF isZip THEN ZipPath ELSE DirPath
    /\ Name = SeqName
    /\ libc = "strtol"
    /\ lineCall = NoLine
    /\ script \in PersistScripts
    /\ Saves \in InitSaves
    /\ Commands = LegacyScriptRead(script, Saves)
    /\ text = script
    /\ reread = <<>>
    /\ pc = "loaded"
    /\ nops = 0
    /\ last = NoCall
    /\ files = EntryNames(Saves)
    /\ loaded = NoSequence
    /\ NoUserManager

\* the calls that return true
SucceedingAdd == AddPark /\ last'.ret = "true"
SucceedingRename == RenamePark /\ last'.ret = "true"
SucceedingRemove == RemovePark /\ last'.ret = "true"

\* LoadTitleSequence(seq.Path) after the save
LoadSequence ==
    /\ pc = "saved"
    /\ \E listing \in Listings(files) :
        loaded' = LoadTitleSequence(Path, text, listing, IsZip)
    /\ pc' = "reloaded"
    /\ UNCHANGED <<Name, Path, Saves, Commands, IsZip, script, text, reread, nops,
                   last, lineCall, libc, files, userVars>>

NextPersist ==
    \/ SucceedingAdd
    \/ SucceedingRename
    \/ SucceedingRemove
    \/ SaveSequence
    \/ LoadSequence

SpecPersist == InitPersist /\ [][NextPersist]_vars

-----------------------------------------------------------------------------

(* Park handles asked of a loaded sequence *)

\* TitleSequenceGetParkHandle(seq, index); last.path is the hint path of the
\* handle returned.  The indices are the positions, the two numbers after
\* them and SAVE_INDEX_INVALID.
GetParkHandle ==
    /\ CanCall
    /\ \E index \in 0..(Len(Saves) + 1) \cup {SAVE_INDEX_INVALID},
          fail \in ParkHandleFailures(IsZip), ub \in OutOfRangeReads :
        LET r == TitleSequenceGetParkHandle(Saves, IsZip, index, fail, ub)
        IN /\ last' = Call("GetParkHandle", index, r.HintPath, <<>>, fail, r)
           /\ pc' = IF r.ret = "crash" THEN "crashed" ELSE pc
    /\ nops' = nops + 1
    /\ UNCHANGED <<Name, Path, Saves, Commands, IsZip, script, text, reread,
                   lineCall, libc, files, loaded, userVars>>

NextHandle == RemovePark \/ GetParkHandle

SpecHandle == InitPersist /\ [][NextHandle]_vars

-----------------------------------------------------------------------------

(* NetworkUserManager: the user store and its Save *)

\* bound of the user store inputs
MaxStore == 2       \* largest number of elements of the stored JSON array

\* the hashes users are known by
Hashes == {"h1", "h2"}

\* An element of the stored array: an object with a hash, or a value that is
\* not an object (a number, a string, null, an array).  fresh tells the
\* objects written by NetworkUser::ToJson in this Save from the ones read.
NonObject == [kind |-> "other"]
JsonUser(hash, fresh) == [kind |-> "object", hash |-> hash, fresh |-> fresh]
Elements == {NonObject} \cup {JsonUser(h, FALSE) : h \in Hashes}
Stores == {<<>>} \cup SeqsUpTo(Elements, MaxStore)

\* GetUserByHash(hash) != nullptr
HasUser(users, hash) == hash \in DOMAIN users

\* jsonUsers.erase(it)
EraseAt(s, k) == SubSeq(s, 1, k - 1) \o SubSeq(s, k + 1, Len(s))

\* The users Load made from a store, none marked Remove, and a store that
\* need not be the one they were loaded from.
InitUsers ==
    /\ Name = SeqName
    /\ Path = DirPath
    /\ IsZip = FALSE
    /\ libc = "strtol"
    /\ script = <<>>
    /\ lineCall = NoLine
    /\ Saves = <<>>
    /\ Commands = <<>>
    /\ text = <<>>
    /\ reread = <<>>
    /\ pc = "start"
    /\ nops = 0
    /\ last = NoCall
    /\ files = {}
    /\ loaded = NoSequence
    /\ userFile \in Stores
    /\ usersByHash \in {[h \in D |-> FALSE] : D \in SUBSET Hashes}
    /\ jsonUsers = <<>>
    /\ it = 1
    /\ savedHashes = {}
    /\ upc = "idle"

titleVars ==
    <<Name, Path, Saves, Commands, IsZip, script, text, reread, pc, nops, last,
      lineCall, libc, files, loaded>>

\* NetworkUserManager::RemoveUser(hash)
RemoveUser ==
    /\ upc = "idle"
    /\ \E hash \in Hashes :
        usersByHash' = IF HasUser(usersByHash, hash)
                       THEN [usersByHash EXCEPT ![hash] = TRUE]
                       ELSE usersByHash
    /\ UNCHANGED <<titleVars, userFile, jsonUsers, it, savedHashes, upc>>

\* Save up to its update loop: jsonUsers is what the file holds, or null when
\* there is no file or it cannot be read
SaveBegin ==
    /\ upc = "idle"
    /\ \E readable \in BOOLEAN :
        jsonUsers' = IF readable THEN userFile ELSE <<>>
    /\ savedHashes' = {}
    /\ it' = 1
    /\ upc' = "test"
    /\ UNCHANGED <<titleVars, userFile, usersByHash>>

\* the test of the update loop: it != jsonUsers.end()
SaveLoopTest ==
    /\ upc = "test"
    /\ upc' = IF it <= Len(jsonUsers) THEN "body" ELSE "add"
    /\ UNCHANGED <<titleVars, userFile, usersByHash, jsonUsers, it, savedHashes>>

\* the body of the update loop, for the element at it
SaveLoopBody ==
    /\ upc = "body"
    /\ LET jsonUser == jsonUsers[it]
       IN IF jsonUser.kind # "object"
          THEN \* continue
               UNCHANGED <<jsonUsers, it, savedHashes>>
          ELSE LET hashString == jsonUser.hash
               IN IF HasUser(usersByHash, hashString)
                  THEN IF usersByHash[hashString]
                       THEN \* it = jsonUsers.erase(it); continue
                            /\ jsonUsers' = EraseAt(jsonUsers, it)
                            /\ UNCHANGED <<it, savedHashes>>
                       ELSE /\ jsonUsers' = [jsonUsers EXCEPT
                                                ![it] = JsonUser(hashString, TRUE)]
                            /\ savedHashes' = savedHashes \cup {hashString}
                            /\ it' = it + 1
                  ELSE /\ it' = it + 1
                       /\ UNCHANGED <<jsonUsers, savedHashes>>
    /\ upc' = "test"
    /\ UNCHANGED <<titleVars, userFile, usersByHash>>

\* the loop that adds the new users, in the order the unordered map gives
\* them, and Json::WriteToFile
SaveAddNew ==
    /\ upc = "add"
    /\ LET new == {h \in DOMAIN usersByHash :
                       ~usersByHash[h] /\ h \notin savedHashes}
       IN \E order \in Listings(new) :
            jsonUsers' = jsonUsers \o [k \in 1..Len(order) |-> JsonUser(order[k], TRUE)]
    /\ userFile' = jsonUsers'
    /\ upc' = "saved"
    /\ UNCHANGED <<titleVars, usersByHash, it, savedHashes>>

SaveStep == SaveLoopTest \/ SaveLoopBody \/ SaveAddNew

NextUsers == RemoveUser \/ SaveBegin \/ SaveLoopTest \/ SaveLoopBody \/ SaveAddNew

\* Save is straight-line code of one thread: once called, its next step is
\* taken.  Nothing says that Save is ever called.
SpecUsers == InitUsers /\ [][NextUsers]_vars /\ WF_vars(SaveStep)

-----------------------------------------------------------------------------

(* Properties of the sequence store (specification Spec) *)

Removed == last.op = "Remove" /\ last.ret = "true"
Renamed == last.op = "Rename" /\ last.ret = "true"
IsLoad(command) == command.Type = "Load"
ValidIndex(j, saves) == j < Len(saves)

\* C1: after a successful TitleSequenceRemovePark(seq, i) every command that
\* was a Load with saveIndex j has saveIndex SAVE_INDEX_INVALID if j = i,
\* j - 1 if j > i and j if j < i; every other command, the number of commands
\* and their order are unchanged.
C1_RemoveShiftsLoadIndices ==
    Removed =>
        /\ Len(Commands) = Len(last.Commands)
        /\ \A k \in 1..Len(last.Commands) :
            LET old == last.Commands[k]
                j == old.SaveIndex
                i == last.index
            IN IF IsLoad(old)
               THEN Commands[k] =
                        [old EXCEPT !.SaveIndex =
                            IF j = i THEN SAVE_INDEX_INVALID
                            ELSE IF j > i THEN j - 1 ELSE j]
               ELSE Commands[k] = old

\* a removal of entry i that met a Load of i, a Load of a later entry, a Load
\* of an earlier entry or a command that is no Load
C1_Witness ==
    /\ Removed
    /\ \E k \in 1..Len(last.Commands) :
        IsLoad(last.Commands[k]) /\ last.Commands[k].SaveIndex = last.index
    /\ \E k \in 1..Len(last.Commands) :
        /\ IsLoad(last.Commands[k])
        /\ last.Commands[k].SaveIndex > last.index
        /\ ValidIndex(last.Commands[k].SaveIndex, last.Saves)

\* C2: in every state reached from a loaded sequence by AddPark, RenamePark
\* and RemovePark calls, every Load command's saveIndex is the sentinel or a
\* valid index into the save list.
C2_LoadIndexSentinelOrValid ==
    pc = "loaded" =>
        \A k \in 1..Len(Commands) :
            IsLoad(Commands[k]) =>
                \/ Commands[k].SaveIndex = SAVE_INDEX_INVALID
                \/ ValidIndex(Commands[k].SaveIndex, Saves)

\* C3: after a successful RemovePark(i) the save list is the previous list
\* with exactly position i deleted, and every Load that had a valid index
\* j # i denotes the same save-entry name as before.
C3_RemoveErasesSlotAndKeepsReferences ==
    Removed =>
        LET i == last.index IN
        /\ Len(Saves) = Len(last.Saves) - 1
        /\ \A p \in 0..(Len(Saves) - 1) :
            Saves[p + 1] = IF p < i THEN last.Saves[p + 1] ELSE last.Saves[p + 2]
        /\ \A k \in 1..Len(last.Commands) :
            LET j == last.Commands[k].SaveIndex IN
            (IsLoad(last.Commands[k]) /\ ValidIndex(j, last.Saves) /\ j # i) =>
                /\ ValidIndex(Commands[k].SaveIndex, Saves)
                /\ Saves[Commands[k].SaveIndex + 1] = last.Saves[j + 1]

\* a removal of an entry that is not the last one, with a Load of a later entry
C3_Witness ==
    /\ Removed
    /\ last.index + 1 < Len(last.Saves)
    /\ \E k \in 1..Len(last.Commands) :
        /\ IsLoad(last.Commands[k])
        /\ last.Commands[k].SaveIndex > last.index
        /\ ValidIndex(last.Commands[k].SaveIndex, last.Saves)
        /\ last.Saves[last.Commands[k].SaveIndex + 1] # last.Saves[last.index + 1]

\* C4: when TitleSequenceAddPark reports failure, the save list and the
\* command list are what they were before the call.
C4_AddFailureLeavesStateUnchanged ==
    (last.op = "Add" /\ last.ret = "false") =>
        /\ Saves = last.Saves
        /\ Commands = last.Commands

\* C5: when RenamePark or RemovePark reports failure (the archive cannot be
\* opened, the move or delete fails), the save list and the command list are
\* what they were before the call.
C5_RenameRemoveFailureLeavesStateUnchanged ==
    (last.op \in {"Rename", "Remove"} /\ last.ret \in {"false", "throw"}) =>
        /\ Saves = last.Saves
        /\ Commands = last.Commands

\* a failed removal of an entry that a Load command refers to
C5_Witness ==
    /\ last.op = "Remove"
    /\ last.ret = "false"
    /\ last.fail # "none"
    /\ \E k \in 1..Len(Commands) :
        IsLoad(Commands[k]) /\ Commands[k].SaveIndex = last.index

\* C6: AddPark, RenamePark and RemovePark return success only when every
\* backend call they made succeeded.
C6_SuccessOnlyWhenBackendSucceeded ==
    last.ret = "true" => last.fail = "none"

\* C7: a successful AddPark(path, name) appends name to the save list exactly
\* when name is not already in it.
C7_AddAppendsIffNameAbsent ==
    (last.op = "Add" /\ last.ret = "true") =>
        Saves = IF Contains(last.Saves, last.name)
                THEN last.Saves
                ELSE Append(last.Saves, last.name)

\* C8: a successful RenamePark(index, newName) changes only save slot index,
\* to newName: the list length, every other slot, every command and the
\* sequence's name, path and backend flag are unchanged.
C8_RenameChangesOnlyItsSlot ==
    Renamed =>
        /\ Len(Saves) = Len(last.Saves)
        /\ \A p \in 1..Len(Saves) :
            Saves[p] = IF p = last.index + 1 THEN last.name ELSE last.Saves[p]
        /\ Commands = last.Commands
        /\ Name = last.Name
        /\ Path = last.Path
        /\ IsZip = last.IsZip

\* a rename to a new name of an entry of a list of several entries that a
\* Load command refers to
C8_Witness ==
    /\ Renamed
    /\ Len(last.Saves) >= 2
    /\ last.Saves[last.index + 1] # last.name
    /\ \E k \in 1..Len(Commands) :
        IsLoad(Commands[k]) /\ Commands[k].SaveIndex = last.index

\* C9: RenamePark and RemovePark called with index >= the number of save
\* entries stop at the guard assertion: no backend call is made, no element
\* of the save list is read or written, and nothing changes.
C9_InvalidIndexFailsFast ==
    (last.op \in {"Rename", "Remove"} /\ last.index >= Len(last.Saves)) =>
        /\ last.ret = "abort"
        /\ last.calls = <<>>
        /\ last.touched = {}
        /\ Saves = last.Saves
        /\ Commands = last.Commands

\* a removal called with index = number of save entries on a sequence with
\* Load commands
C9_Witness ==
    /\ last.op = "Remove"
    /\ last.index >= Len(last.Saves)
    /\ last.ret = "abort"
    /\ \E k \in 1..Len(Commands) : IsLoad(Commands[k])

-----------------------------------------------------------------------------
(* Properties of decoding and encoding (specification SpecRT) *)

\* C10: decoding a script, encoding the commands and decoding that text
\* against the same save list yields the same command sequence as the first
\* decoding.
C10_RoundTrip ==
    pc = "done" => reread = Commands

-----------------------------------------------------------------------------
(* Properties of the decoder (specification SpecDec) *)

Decoded == lineCall.stage = "decoded"
LowerText(s) == [i \in 1..Len(s) |-> tolower(s[i])]
\* the positions, counted from 0, of the entries named like name up to case
MatchingSaves(name, saves) ==
    {i \in 0..(Len(saves) - 1) : LowerText(saves[i + 1]) = LowerText(name)}
Least(S) == CHOOSE x \in S : \A y \in S : x <= y

\* C11: decoding LOAD arg1 (the keyword in any letter case) gives a Load
\* command whose saveIndex is the lowest position of a save entry whose name
\* equals arg1 up to letter case, also when several entries match, and
\* SAVE_INDEX_INVALID when no entry matches.
C11_LoadResolvesToFirstMatch ==
    (Decoded /\ LowerText(lineCall.parts[1]) = LoadLower) =>
        LET m == MatchingSaves(lineCall.parts[2], Saves)
        IN /\ lineCall.cmd.Type = "Load"
           /\ lineCall.cmd.SaveIndex =
                  IF m = {} THEN SAVE_INDEX_INVALID ELSE Least(m)

\* C11 happens: two entries match up to case, the first of them is not the
\* first entry and is spelled differently from arg1
C11_Witness ==
    /\ Decoded
    /\ lineCall.cmd.Type = "Load"
    /\ LET m == MatchingSaves(lineCall.parts[2], Saves)
       IN /\ Cardinality(m) >= 2
          /\ Least(m) > 0
          /\ Saves[Least(m) + 1] # lineCall.parts[2]
          /\ lineCall.cmd.SaveIndex = Least(m)

\* the text of an integer: an optional minus sign, then digits only
Digits(s) == IF s # <<>> /\ s[1] = "-" THEN Tail(s) ELSE s
IsNumber(s) ==
    /\ Digits(s) # <<>>
    /\ \A i \in 1..Len(Digits(s)) : IsDigit(Digits(s)[i])
\* text atoi finds no number in
NonNumeric(s) == s = <<>> \/ ~(IsDigit(s[1]) \/ s[1] \in {"-", "+", " "})

\* n mod m for the integer n written as s
RECURSIVE DigitsMod(_, _, _, _)
DigitsMod(d, i, m, acc) ==
    IF i > Len(d) THEN acc
    ELSE DigitsMod(d, i + 1, m, (acc * 10 + DigitVal(d[i])) % m)
TextMod(s, m) ==
    LET mag == DigitsMod(Digits(s), 1, m, 0)
    IN IF s[1] = "-" THEN (m - mag) % m ELSE mag

\* x <= y for two digit texts of one length
DigitsLeq(x, y) ==
    \/ x = y
    \/ \E i \in 1..Len(x) :
        /\ \A j \in 1..(i - 1) : x[j] = y[j]
        /\ DigitVal(x[i]) < DigitVal(y[i])
IntMaxText == <<"2","1","4","7","4","8","3","6","4","7">>
IntMinText == <<"2","1","4","7","4","8","3","6","4","8">>
\* the integer written as s is a value of int
FitsInt(s) ==
    \/ Len(Digits(s)) < Len(IntMaxText)
    \/ /\ Len(Digits(s)) = Len(IntMaxText)
       /\ DigitsLeq(Digits(s), IF s[1] = "-" THEN IntMinText ELSE IntMaxText)

\* the stored value got is the argument s taken modulo m, or 0 for text that
\* is no number; every says whether numbers outside int are meant too
MaskedArg(s, got, m, every) ==
    /\ (IsNumber(s) /\ (every \/ FitsInt(s))) => got = TextMod(s, m)
    /\ NonNumeric(s) => got = 0
ClampedArg(s, got, every) ==
    /\ got \in 1..4
    /\ (IsNumber(s) /\ (every \/ FitsInt(s))) =>
           got = Max2(1, Min2(4, TextMod(s, 256)))
    /\ NonNumeric(s) => got = 1

NumericKeywords ==
    {KW_LOCATION, KW_ROTATE, KW_ZOOM, KW_SPEED, KW_FOLLOW, KW_WAIT}

MaskingRule(every) ==
    (Decoded /\ lineCall.parts[1] \in NumericKeywords) =>
        LET c == lineCall.cmd
            part1 == lineCall.parts[2]
            part2 == lineCall.parts[3]
        IN /\ Len(Commands) = 1
           /\ Commands[1] = c
           /\ lineCall.parts[1] = KW_LOCATION =>
                  /\ c.Type = "Location"
                  /\ MaskedArg(part1, c.X, 256, every)
                  /\ MaskedArg(part2, c.Y, 256, every)
           /\ lineCall.parts[1] = KW_ROTATE =>
                  c.Type = "Rotate" /\ MaskedArg(part1, c.Rotations, 256, every)
           /\ lineCall.parts[1] = KW_ZOOM =>
                  c.Type = "Zoom" /\ MaskedArg(part1, c.Zoom, 256, every)
           /\ lineCall.parts[1] = KW_WAIT =>
                  c.Type = "Wait" /\ MaskedArg(part1, c.Milliseconds, 65536, every)
           /\ lineCall.parts[1] = KW_FOLLOW =>
                  c.Type = "Follow" /\ MaskedArg(part1, c.SpriteIndex, 65536, every)
           /\ lineCall.parts[1] = KW_SPEED =>
                  c.Type = "Speed" /\ ClampedArg(part1, c.Speed, every)

\* C12 as stated: for every integer argument n, LOCATION, ROTATE and ZOOM
\* store n mod 256, WAIT and the FOLLOW sprite index n mod 65536, SPEED
\* max(1, min(4, n mod 256)); text that is no number decodes as 0; no line is
\* rejected.
C12_MaskedForEveryInteger == MaskingRule(TRUE)

\* C12, amended: the same for every integer argument n that is a value of int
\* (-2147483648 <= n <= 2147483647); for the other integers the command is
\* still decoded and SPEED is still within 1..4.
C12_MaskedForEveryInt == MaskingRule(FALSE)

\* C12 happens: LOCATION 300 -1 is decoded as Location{44, 255}
C12_Witness ==
    /\ Decoded
    /\ lineCall.parts = <<KW_LOCATION, <<"3","0","0">>, <<"-","1">> >>
    /\ lineCall.cmd.X = 44
    /\ lineCall.cmd.Y = 255

-----------------------------------------------------------------------------
(* Properties of decoding (specification SpecRT) *)

\* the keywords and the command type each stands for
KeywordTable ==
    { <<KW_LOAD, "Load">>, <<KW_LOADSC, "LoadSc">>, <<KW_LOCATION, "Location">>,
      <<KW_ROTATE, "Rotate">>, <<KW_ZOOM, "Zoom">>, <<KW_SPEED, "Speed">>,
      <<KW_FOLLOW, "Follow">>, <<KW_WAIT, "Wait">>, <<KW_RESTART, "Restart">>,
      <<KW_END, "End">> }
Recognized(token) ==
    \E k \in KeywordTable : LowerText(k[1]) = LowerText(token)
KeywordType(token) ==
    (CHOOSE k \in KeywordTable : LowerText(k[1]) = LowerText(token))[2]
InertTypes == {"Undefined", "Loop", "EndLoop"}

\* the first fields of the lines of stream, a line being what one call of the
\* tokenizer reads
RECURSIVE LineTokens(_, _)
LineTokens(stream, pos) ==
    LET line == LegacyScriptGetLine(stream, pos)
    IN IF line.pos < Len(stream)
       THEN <<line.parts[1]>> \o LineTokens(stream, line.pos)
       ELSE <<line.parts[1]>>
RecognizedTokens(stream) == SelectSeq(LineTokens(stream, 0), Recognized)

\* C13: decoding stores no Undefined, Loop or EndLoop command; a line whose
\* token is empty or no keyword contributes nothing, and every line whose token
\* is a keyword (in any letter case) contributes the command of that keyword,
\* in input order.  A line is what one call of the tokenizer reads.
C13_OnlyRecognizedLinesContribute ==
    pc # "start" =>
        /\ \A k \in 1..Len(Commands) : Commands[k].Type \notin InertTypes
        /\ Len(Commands) = Len(RecognizedTokens(script))
        /\ \A k \in 1..Len(Commands) :
            Commands[k].Type = KeywordType(RecognizedTokens(script)[k])

\* C13 happens: a script with a line that is dropped and a line that is kept
C13_Witness ==
    /\ pc = "decoded"
    /\ Len(Commands) >= 1
    /\ Len(LineTokens(script, 0)) > Len(Commands)
    /\ \E k \in 1..Len(LineTokens(script, 0)) :
        LET token == LineTokens(script, 0)[k]
        IN token # <<>> /\ ~Recognized(token)

-----------------------------------------------------------------------------
(* Properties of the tokenizer (specification SpecTok) *)

Tokenized == lineCall.stage \in {"tokenized", "decoded"}
Fits(s) == Len(s) <= PART_SIZE - 1
IsLoadWord(f) == LowerText(f) \in {LowerText(KW_LOAD), LowerText(KW_LOADSC)}
IsFollowWord(f) == LowerText(f) = LowerText(KW_FOLLOW)

HashAt(s) == {i \in 1..Len(s) : s[i] = "#"}
\* s up to its first '#'
BeforeHash(s) ==
    IF HashAt(s) = {} THEN s ELSE SubSeq(s, 1, Least(HashAt(s)) - 1)
\* the line from its character number n + 1 on
After(in, n) == SubSeq(LineText(in), n + 1, Len(LineText(in)))
\* the first field of the line is followed by a space
SpaceAfterFirst(in) ==
    /\ in.first # <<>>
    /\ Len(LineText(in)) > Len(in.first)
    /\ LineText(in)[Len(in.first) + 1] = " "
\* the second field, set off by one space, is followed by a space
SpaceAfterSecond(in) ==
    /\ in.sep1 = 1
    /\ Len(LineText(in)) > Len(in.first) + 1 + Len(in.a)
    /\ LineText(in)[Len(in.first) + 1 + Len(in.a) + 1] = " "

\* C14: when the first field is LOAD or LOADSC in any letter case and one
\* space follows it, the whole remainder of the line up to a '#' or the line
\* end is arg1, spaces included, and arg2 is empty; when the first field is
\* FOLLOW, arg1 still ends at the next space and arg2 is the remainder up to a
\* '#' or the line end, spaces included; after every other first field a space
\* separates the fields, so LOCATION 10 20 has the two fields 10 and 20.  The
\* texts are those a field has room for.
C14_EmbeddedSpaceModes ==
    Tokenized =>
        LET in == lineCall.in
            rest1 == BeforeHash(After(in, Len(in.first) + 1))
            rest2 == BeforeHash(After(in, Len(in.first) + 1 + Len(in.a) + 1))
        IN /\ (IsLoadWord(in.first) /\ SpaceAfterFirst(in) /\ Fits(rest1)) =>
                  lineCall.parts = <<in.first, rest1, <<>> >>
           /\ (IsFollowWord(in.first) /\ SpaceAfterSecond(in) /\ Fits(in.a)
                   /\ Fits(rest2)) =>
                  lineCall.parts = <<in.first, in.a, rest2>>
           /\ (in.first # <<>> /\ ~IsLoadWord(in.first) /\ ~IsFollowWord(in.first)
                   /\ Fits(in.first) /\ in.sep1 = 1 /\ Fits(in.a)
                   /\ in.sep2 = 1 /\ Fits(in.b)) =>
                  lineCall.parts = <<in.first, in.a, in.b>>

\* C14 happens: "load my p.sv6" is read as LOAD of the entry "my p.sv6"
C14_Witness ==
    /\ lineCall.stage = "decoded"
    /\ lineCall.in.first = LoadLower
    /\ lineCall.in.a = MyText /\ lineCall.in.sep1 = 1
    /\ lineCall.in.b = ParkText /\ lineCall.in.sep2 = 1
    /\ lineCall.in.tail = <<>>
    /\ lineCall.parts = <<LoadLower, MyPark, <<>> >>
    /\ lineCall.cmd.Type = "Load"
    /\ lineCall.cmd.SaveIndex = 1

RotateLine == KW_ROTATE \o <<" ">> \o Num2 \o <<" ","#"," ","c">>

\* C15: once a '#' is read the field being filled ends there: the fields are
\* those of the line cut before its first '#', and no field holds a '#'; a
\* line that starts with '#' has no field and gives no command, and
\* "ROTATE 2 # c" gives Rotate{2}.
C15_CommentStripped ==
    (Tokenized /\ HashAt(LineText(lineCall.in)) # {}) =>
        LET line == LineText(lineCall.in)
        IN /\ lineCall.parts = LegacyScriptGetLine(BeforeHash(line), 0).parts
           /\ \A p \in 1..3 : HashAt(lineCall.parts[p]) = {}
           /\ line[1] = "#" =>
                  /\ lineCall.parts = << <<>>, <<>>, <<>> >>
                  /\ Commands = <<>>
           /\ (line = RotateLine /\ lineCall.stage = "decoded") =>
                  /\ lineCall.cmd =
                         [UndefinedCommand EXCEPT !.Type = "Rotate",
                                                  !.Rotations = 2]
                  /\ Commands = <<lineCall.cmd>>

\* C15 happens: "ROTATE 2 # c" was tokenized and decoded
C15_Witness ==
    /\ lineCall.stage = "decoded"
    /\ LineText(lineCall.in) = RotateLine
    /\ lineCall.parts = <<KW_ROTATE, Num2, <<>> >>
    /\ lineCall.cmd.Rotations = 2

\* the line has three fields, none of them an embedded-space field
PlainThreeFields(in) ==
    /\ in.first # <<>> /\ in.a # <<>> /\ in.b # <<>>
    /\ ~IsLoadWord(in.first) /\ ~IsFollowWord(in.first)
Truncated(s) == IF Fits(s) THEN s ELSE SubSeq(s, 1, PART_SIZE - 1)

\* C18: outside load mode and sprite mode a run of several spaces between two
\* fields separates them as one space does: the fields are the same whatever
\* the number of spaces (LOCATION, two spaces, 10 20 gives arg1 = 10 and
\* arg2 = 20), and no empty field lies between two non-empty fields.
C18_SpacesCollapse ==
    (Tokenized /\ PlainThreeFields(lineCall.in) /\ Fits(lineCall.in.first)
         /\ Fits(lineCall.in.a) /\ Fits(lineCall.in.b)) =>
        /\ lineCall.parts = <<lineCall.in.first, lineCall.in.a, lineCall.in.b>>
        /\ ~(lineCall.parts[2] = <<>> /\ lineCall.parts[3] # <<>>)

\* C19: a field whose text is longer than 127 characters holds exactly the
\* first 127 of them; the excess is dropped: it is in no later field and the
\* fields after it are the texts that follow it on the line.
C19_LongFieldTruncated ==
    (Tokenized /\ PlainThreeFields(lineCall.in) /\ lineCall.in.sep1 = 1
         /\ lineCall.in.sep2 = 1) =>
        lineCall.parts = <<Truncated(lineCall.in.first), Truncated(lineCall.in.a),
                           Truncated(lineCall.in.b)>>

\* the stream position after the line and the character that ends it
LineEndPos(in) == Len(LineText(in)) + (IF in.end = <<>> THEN 0 ELSE 1)

\* C20: one call of the tokenizer reads up to and including the next newline,
\* carriage return or end of input, so that what follows the third field of a
\* line (END in LOCATION 10 20 END) is never read as a line of its own.
C20_ConsumesWholeLine ==
    Tokenized => lineCall.pos = LineEndPos(lineCall.in)

-----------------------------------------------------------------------------
\* the bytes of field p of the buffer up to the first NUL from offset k on;
\* a byte never written ends the text as well
CString(mem, p, k) ==
    LET Ends(j) == j >= PART_SIZE
                   \/ (p * PART_SIZE + j) \notin DOMAIN mem
                   \/ mem[p * PART_SIZE + j] = NUL
        end == CHOOSE j \in k..PART_SIZE :
                   Ends(j) /\ \A i \in k..(j - 1) : ~Ends(i)
    IN [i \in 1..(end - k) |-> mem[p * PART_SIZE + k + i - 1]]

\* field p holds a NUL at one of its own 128 offsets
NulTerminated(mem, p) ==
    \E k \in 0..(PART_SIZE - 1) :
        /\ (p * PART_SIZE + k) \in DOMAIN mem
        /\ mem[p * PART_SIZE + k] = NUL

\* The three fields the decoder reads from the buffer are the texts the
\* tokenizer holds for them.
BufferHoldsFields ==
    Tokenized =>
        \A p \in 0..2 : CString(lineCall.mem, p, 0) = lineCall.parts[p + 1]

\* C25: the tokenizer never writes outside its three 128-byte field buffers.
\* Every write of a call is made with a field number in 0..2 and an offset in
\* 0..127, and when the call returns each of the three fields holds a NUL
\* within its own 128 bytes, whatever the line is.
C25_WritesStayInFields ==
    Tokenized =>
        /\ \A w \in lineCall.writes :
              w[1] \in 0..2 /\ w[2] \in 0..(PART_SIZE - 1)
        /\ \A p \in 0..2 : NulTerminated(lineCall.mem, p)

\* A line whose first and second fields are longer than a field has been read:
\* field 0 was filled to its last byte, and the bytes that did not fit went
\* on into the fields after it.
C25_Witness ==
    /\ Tokenized
    /\ lineCall.in.first = LongField
    /\ lineCall.in.a = LongField
    /\ <<0, PART_SIZE - 1>> \in lineCall.writes
    /\ <<2, PART_SIZE - 1>> \in lineCall.writes
    /\ Len(lineCall.parts[1]) = PART_SIZE - 1

-----------------------------------------------------------------------------

(* Properties of saving (specification SpecEnc) *)

\* the lines of s, each without the newline that ends it
RECURSIVE SplitLines(_)
SplitLines(s) ==
    IF s = <<>> THEN <<>>
    ELSE LET nl == {i \in 1..Len(s) : s[i] = "\n"}
         IN IF nl = {} THEN <<s>>
            ELSE <<SubSeq(s, 1, Least(nl) - 1)>>
                 \o SplitLines(SubSeq(s, Least(nl) + 1, Len(s)))
Saved == pc = "saved"
HeaderLine == SCRIPT_FOR \o Name
NoSaveFileLine == KW_LOAD \o <<" ">> \o NO_SAVE_FILE

\* the sequence was loaded from "LOAD a.sv6", "END" against the one entry a.sv6,
\* and entry 0 was removed, nothing else
LoadEndThenRemoved ==
    /\ script = LoadEndScript
    /\ nops = 1
    /\ Removed
    /\ last.index = 0
    /\ last.Saves = <<SaveA>>
    /\ last.Commands = LegacyScriptRead(LoadEndScript, <<SaveA>>)

\* C16: the line written for a Load command is LOAD and the name of the save
\* entry at its saveIndex when that is a position of the save list, and
\* LOAD <No save file> when its saveIndex is SAVE_INDEX_INVALID; decoding
\* "LOAD a.sv6", "END" against the one entry a.sv6, removing entry 0 and
\* encoding gives the lines LOAD <No save file> and END after the header.
C16_LoadLineNameOrPlaceholder ==
    Saved =>
        /\ \A k \in 1..Len(Commands) :
            IsLoad(Commands[k]) =>
                LET j == Commands[k].SaveIndex
                    line == SplitLines(text)[k + 1]
                IN /\ ValidIndex(j, Saves) =>
                       line = KW_LOAD \o <<" ">> \o Saves[j + 1]
                   /\ j = SAVE_INDEX_INVALID => line = NoSaveFileLine
        /\ LoadEndThenRemoved =>
               SplitLines(text) = <<HeaderLine, NoSaveFileLine, KW_END>>

\* C16 happens: the sequence of "LOAD a.sv6", "END" was saved after its only
\* entry was removed
C16_Witness ==
    /\ Saved
    /\ LoadEndThenRemoved
    /\ Saves = <<>>
    /\ Commands[1].SaveIndex = SAVE_INDEX_INVALID
    /\ text = HeaderLine \o <<"\n">> \o NoSaveFileLine \o <<"\n">>
                \o KW_END \o <<"\n">>

\* s begins with p
StartsWith(s, p) == Len(s) >= Len(p) /\ SubSeq(s, 1, Len(p)) = p
\* the keyword written for a command type
KeywordOf(type) == (CHOOSE k \in KeywordTable : k[2] = type)[1]

\* C17: the text written is the header line "# SCRIPT FOR <name>" and then one
\* line per command, in command order, each ended by a newline: (number of
\* commands + 1) lines; an Undefined, Loop or EndLoop command gives an empty
\* line, every other command a line that starts with its keyword.
C17_OneLinePerCommand ==
    Saved =>
        /\ Len(SplitLines(text)) = Len(Commands) + 1
        /\ Cardinality({i \in 1..Len(text) : text[i] = "\n"}) = Len(Commands) + 1
        /\ text[Len(text)] = "\n"
        /\ SplitLines(text)[1] = HeaderLine
        /\ \A k \in 1..Len(Commands) :
            LET line == SplitLines(text)[k + 1]
            IN IF Commands[k].Type \in InertTypes
               THEN line = <<>>
               ELSE StartsWith(line, KeywordOf(Commands[k].Type))

\* C17 happens: a sequence with a Loop or an Undefined command and with other
\* commands was saved
C17_Witness ==
    /\ Saved
    /\ \E k \in 1..Len(Commands) : Commands[k].Type \in InertTypes
    /\ \E k \in 1..Len(Commands) : Commands[k].Type \notin InertTypes
    /\ Len(SplitLines(text)) = Len(Commands) + 1

-----------------------------------------------------------------------------
(* Further properties of the sequence store (specification Spec) *)

\* C21: a Load command whose saveIndex is SAVE_INDEX_INVALID before a
\* successful TitleSequenceRemovePark(seq, i) still has the saveIndex
\* SAVE_INDEX_INVALID after it, for every valid i.
C21_SentinelSurvivesRemove ==
    Removed =>
        \A k \in 1..Len(last.Commands) :
            (IsLoad(last.Commands[k])
                 /\ last.Commands[k].SaveIndex = SAVE_INDEX_INVALID) =>
                /\ k <= Len(Commands)
                /\ IsLoad(Commands[k])
                /\ Commands[k].SaveIndex = SAVE_INDEX_INVALID

-----------------------------------------------------------------------------
(* Properties of saving and loading again (specification SpecPersist) *)

Reloaded == pc = "reloaded"

\* C22: after successful Add, Rename and Remove calls, a successful Save and a
\* Load of the same path, the loaded command list has the length and the types
\* of the one in memory, and every Load command of it denotes the save entry
\* name its counterpart in memory denotes, or has the saveIndex
\* SAVE_INDEX_INVALID exactly when the counterpart has.
C22_SaveLoadKeepsReferences ==
    Reloaded =>
        /\ Len(loaded.Commands) = Len(Commands)
        /\ \A k \in 1..Len(Commands) :
            /\ k <= Len(loaded.Commands)
            /\ loaded.Commands[k].Type = Commands[k].Type
            /\ IsLoad(Commands[k]) =>
                LET j == Commands[k].SaveIndex
                    l == loaded.Commands[k].SaveIndex
                IN /\ (l = SAVE_INDEX_INVALID) <=> (j = SAVE_INDEX_INVALID)
                   /\ j # SAVE_INDEX_INVALID =>
                          /\ ValidIndex(j, Saves)
                          /\ ValidIndex(l, loaded.Saves)
                          /\ loaded.Saves[l + 1] = Saves[j + 1]

\* the sequence of "LOAD c.sv6", "END" with the one entry a.sv6, which no
\* Load names, was saved and loaded again after entry 0 was removed
C22_RemovedThenReloaded ==
    /\ Reloaded
    /\ script = Script(<<LoadLine(SaveC), KW_END>>)
    /\ nops = 1
    /\ Removed
    /\ last.Saves = <<SaveA>>
    /\ Commands[1].SaveIndex = SAVE_INDEX_INVALID - 1
    /\ loaded.Commands[1].SaveIndex = SAVE_INDEX_INVALID

-----------------------------------------------------------------------------
(* Properties of park handles (specification SpecHandle) *)

\* C23: TitleSequenceGetParkHandle(seq, index) with index >= the number of
\* save entries (index == that number and SAVE_INDEX_INVALID included) returns
\* no handle and indexes no slot of the save list; the hint path of every
\* handle returned is the name of the save entry at index.
C23_HandleOnlyForValidIndex ==
    last.op = "GetParkHandle" =>
        /\ last.index >= Len(Saves) => (last.ret = "none" /\ last.touched = {})
        /\ last.ret = "handle" =>
               /\ ValidIndex(last.index, Saves)
               /\ last.path = Saves[last.index + 1]

-----------------------------------------------------------------------------
(* Properties of the decode loop (specification SpecLoop) *)

Returned == lineCall.stage = "returned"

\* The passes of the loop produce the command list of LegacyScriptRead.
LoopAgreesWithRead ==
    Returned => Commands = LegacyScriptRead(script, Saves)

\* C24: decoding terminates for every finite script.  A tokenizer call made
\* with the stream position before the end consumes at least one byte, the
\* position never decreases and never passes the end, the loop stops once
\* the position has reached the length of the script and not before, and it
\* does stop; the empty script gives the empty command list after a single
\* tokenizer call.
C24_DecodingTerminates ==
    /\ [][/\ lineCall'.pos >= lineCall.pos
          /\ lineCall'.pos <= Len(script)
          /\ lineCall.pos < Len(script) => lineCall'.pos > lineCall.pos
          /\ Returned' <=> lineCall'.pos = Len(script)
          /\ (script = <<>>) => (Returned' /\ Commands' = <<>> /\ nops' = 1)]_vars
    /\ <>Returned

\* A script longer than a field has been read to its end in more than one
\* pass, the first of which ended a field at the field capacity.
C24_Witness ==
    /\ Returned
    /\ nops >= 2
    /\ lineCall.pos = Len(script)
    /\ Len(script) > PART_SIZE
    /\ Commands = LegacyScriptRead(script, Saves)

-----------------------------------------------------------------------------
(* Properties of decoding against a long save list (specification SpecBig) *)

\* C26: the index stored by decoding LOAD arg1 identifies the matched entry
\* for save lists of any length: when arg1 first matches the entry at
\* position i, the stored 8-bit saveIndex is i and is not
\* SAVE_INDEX_INVALID, also for i of 255 and more.
C26_StoredIndexIsMatchedPosition ==
    (Decoded /\ lineCall.cmd.Type = "Load") =>
        LET m == MatchingSaves(lineCall.parts[2], Saves)
        IN m # {} =>
               /\ lineCall.cmd.SaveIndex = Least(m)
               /\ lineCall.cmd.SaveIndex # SAVE_INDEX_INVALID

-----------------------------------------------------------------------------
(* Properties of the user store (specification SpecUsers) *)

SaveRunning == upc \in {"test", "body", "add"}
UsersSaved == upc = "saved"

\* the positions of the store that hold an object with the hash
EntriesOf(store, hash) ==
    {k \in 1..Len(store) : store[k].kind = "object" /\ store[k].hash = hash}

\* after Save the store holds no user marked Remove and an entry for every
\* user in memory that is not marked Remove
StoreMatchesUsers ==
    UsersSaved =>
        \A h \in DOMAIN usersByHash :
            IF usersByHash[h] THEN EntriesOf(userFile, h) = {}
            ELSE EntriesOf(userFile, h) # {}

\* ... and no more than one entry, a store that held the hash twice included
StoreHoldsUsersOnce ==
    UsersSaved =>
        \A h \in DOMAIN usersByHash : Cardinality(EntriesOf(userFile, h)) <= 1

\* a Save that has been called returns
SaveReturns == SaveRunning ~> UsersSaved

\* C27: NetworkUserManager::Save terminates for every content of the existing
\* user store: the loop over the stored elements advances past every
\* element, those that are not objects included, and after it the store has
\* no user marked Remove and an entry for every user in memory that is not
\* marked Remove.
C27_SaveTerminatesWithUsersStored ==
    /\ SaveRunning ~> UsersSaved
    /\ [](UsersSaved =>
            \A h \in DOMAIN usersByHash :
                IF usersByHash[h] THEN EntriesOf(userFile, h) = {}
                ELSE EntriesOf(userFile, h) # {})

=============================================================================
